---- MODULE Spec2Model ----
(***************************************************************************)
(* A model of the metadata reader of async-tiff: the byte-range driven     *)
(* header check, the IFD chain walk and the decoding of a single IFD       *)
(* entry, over files that are sequences of bytes.                          *)
(*                                                                         *)
(* Numbers wider than TLC's integers (u32, u64, and their signed and       *)
(* floating point readings) are kept as their digits in base 256, most     *)
(* significant first: the reading of a little-endian field reverses the    *)
(* stored bytes, the reading of a big-endian field keeps them.  A float is *)
(* its bit pattern (f32::from_bits is injective on patterns).              *)
(***************************************************************************)
EXTENDS Integers, Sequences, FiniteSets, TLC

VARIABLES
    file,             \* the bytes of the data source
    layout,           \* ghost: how the file was laid out (never read by the code)
    pc,               \* position of the caller: start, idle, reading, done, failed, panicked
    endianness,       \* TiffMetadataReader.endianness
    bigtiff,          \* TiffMetadataReader.bigtiff
    next_ifd_offset,  \* TiffMetadataReader.next_ifd_offset : Option<u64>
    ifd_reader,       \* the ImageFileDirectoryReader of the IFD being read
    tag_idx,          \* loop index of ImageFileDirectoryReader::read
    tags,             \* the HashMap<Tag, Value> being filled
    ifds,             \* the Vec<ImageFileDirectory> of read_all_ifds
    visited,          \* ghost: the offsets at which an IFD was opened, in order
    fetch_log,        \* ghost: byte ranges fetched for the IFD being read / by the last call
    outcome,          \* result of the last fallible call
    cursor,           \* result of AsyncCursor::try_open_tiff
    entry,            \* the logical IFD entry of the tag codec runs
    parsed,           \* results of read_tag on the encodings of entry
    ifd,              \* result of ImageFileDirectory::from_tags on tags
    request,          \* ghost: the arguments of the last call on the IFD, reader or predictor
    prefetch,         \* the PrefetchBuffer / PrefetchReader and its inner source
    predictor_info    \* the PredictorInfo of the chunk being unpredicted

vars == <<file, layout, pc, endianness, bigtiff, next_ifd_offset, ifd_reader,
          tag_idx, tags, ifds, visited, fetch_log, outcome, cursor, entry, parsed,
          ifd, request, prefetch, predictor_info>>

\* The state of the metadata reader, and the state of the chunk operations.
readerVars == <<layout, endianness, bigtiff, next_ifd_offset, ifd_reader, tag_idx, ifds,
                visited, cursor, entry, parsed>>
chunkVars == <<ifd, request, prefetch, predictor_info>>

----------------------------------------------------------------------------
(* Bounds of the model *)

\* number of IFDs laid out in a file of the walk
MaxIfds == 2
\* elements of an entry beyond what fits the 8-byte BigTIFF value field
MaxExtra == 1

----------------------------------------------------------------------------
(* Bytes and byte order *)

LittleEndian == "LittleEndian"
BigEndian == "BigEndian"
Endiannesses == {LittleEndian, BigEndian}

Reverse(s) == [i \in 1..Len(s) |-> s[Len(s) + 1 - i]]

Zeros(n) == [i \in 1..n |-> 0]

\* The concatenation of a sequence of sequences; ss is evaluated once.
RECURSIVE Concat(_)
Concat(ss) == IF ss = <<>> THEN <<>> ELSE Head(ss) \o Concat(Tail(ss))
Flatten(ss) == CHOOSE r \in {Concat(v) : v \in {ss}} : TRUE

\* EndianAwareReader::read_u16/u32/u64/i16/i32/i64/f32/f64: the number held by
\* the bytes b under byte order e, as digits, most significant first.
MutEndianRead(b, e) == Reverse(b)
EndianRead(b, e) == IF e = LittleEndian THEN Reverse(b) ELSE b

\* u32 -> u64 (`.into()`), u16 -> u64: zero extension to 8 digits.
ToU64(d) == Zeros(8 - Len(d)) \o d

\* The value of a digit string as a TLC integer; anything of 2^24 or more is
\* beyond every file of the model and is read as Huge.
Huge == 256 * 256 * 256
RECURSIVE DigitsValue(_)
DigitsValue(d) ==
    IF d = <<>> THEN 0
    ELSE d[Len(d)] + 256 * DigitsValue(SubSeq(d, 1, Len(d) - 1))
ToNat(d) ==
    LET n == Len(d)
        high == IF n > 3 THEN SubSeq(d, 1, n - 3) ELSE <<>>
        low == IF n > 3 THEN SubSeq(d, n - 2, n) ELSE d
    IN IF \E i \in 1..Len(high) : high[i] # 0 THEN Huge ELSE DigitsValue(low)

\* The writer's side: n as w digits, most significant first, and as stored bytes.
RECURSIVE Digits(_, _)
Digits(n, w) == IF w = 0 THEN <<>> ELSE Digits(n \div 256, w - 1) \o <<n % 256>>
Store(d, e) == IF e = LittleEndian THEN Reverse(d) ELSE d

----------------------------------------------------------------------------
(* The data source *)

\* MetadataFetch::fetch(range): the bytes of the range, or a failure when the
\* source does not hold them.
Fetch(f, start, end) ==
    IF start <= end /\ end <= Len(f)
    THEN [ok |-> TRUE, bytes |-> SubSeq(f, start + 1, end)]
    ELSE [ok |-> FALSE, bytes |-> <<>>]

\* One entry of the fetch log: the range and whether the cursor had been moved
\* to an offset stored in the file (cursor.seek(offset)) before the read.
Range(start, end, ind) == [start |-> start, end |-> end, indirect |-> ind]

----------------------------------------------------------------------------
(* Tag types and values *)

BYTE == 1
ASCII == 2
SHORT == 3
LONG == 4
RATIONAL == 5
SBYTE == 6
UNDEFINED == 7
SSHORT == 8
SLONG == 9
SRATIONAL == 10
FLOAT == 11
DOUBLE == 12
IFD == 13
LONG8 == 16
SLONG8 == 17
IFD8 == 18

\* Type::from_u16 succeeds on these codes only.
Types == {BYTE, ASCII, SHORT, LONG, RATIONAL, SBYTE, UNDEFINED, SSHORT, SLONG,
          SRATIONAL, FLOAT, DOUBLE, IFD, LONG8, SLONG8, IFD8}

\* let tag_size = match tag_type { ... }
tag_size(t) ==
    IF t \in {BYTE, SBYTE, ASCII, UNDEFINED} THEN 1
    ELSE IF t \in {SHORT, SSHORT} THEN 2
    ELSE IF t \in {LONG, SLONG, FLOAT, IFD} THEN 4
    ELSE 8

\* The Value variant every arm of read_tag_value builds for a type.
VariantOf(t) ==
    CASE t \in {BYTE, UNDEFINED} -> "Byte"
      [] t = SBYTE -> "SignedByte"
      [] t = SHORT -> "Short"
      [] t = SSHORT -> "SignedShort"
      [] t = LONG -> "Unsigned"
      [] t = SLONG -> "Signed"
      [] t = FLOAT -> "Float"
      [] t = IFD -> "Ifd"
      [] t = LONG8 -> "UnsignedBig"
      [] t = SLONG8 -> "SignedBig"
      [] t = DOUBLE -> "Double"
      [] t = RATIONAL -> "Rational"
      [] t = SRATIONAL -> "SRational"
      [] t = IFD8 -> "IfdBig"
      [] t = ASCII -> "Ascii"

\* A Value: its variant and its payload (one number, two for a rational, the
\* bytes of a string, the elements of a list).
Val(k, v) == [kind |-> k, val |-> v]
NoValue == Val("None", <<>>)
Idle == [kind |-> "None"]
Ascii(s) == Val("Ascii", <<s>>)
List(items) == Val("List", items)

\* Value::X(data.read_x()?) and Value::Rational(data.read_u32()?, data.read_u32()?)
\* on the bytes b of one element.
Scalar(t, b, e) ==
    IF t \in {RATIONAL, SRATIONAL}
    THEN Val(VariantOf(t), <<EndianRead(SubSeq(b, 1, 4), e), EndianRead(SubSeq(b, 5, 8), e)>>)
    ELSE Val(VariantOf(t), <<EndianRead(b, e)>>)

\* Results of the fallible calls: Ok(value), Err(error) or a panic (abort).
OkR(v, log) == [kind |-> "Ok", value |-> v, err |-> "", fetches |-> log]
ErrR(err, log) == [kind |-> "Err", value |-> NoValue, err |-> err, fetches |-> log]
PanicR(msg, log) == [kind |-> "Panic", value |-> NoValue, err |-> msg, fetches |-> log]
NotRun == [kind |-> "NotRun", value |-> NoValue, err |-> "", fetches |-> <<>>]

\* The error of a fetch the source cannot serve.
FetchFailed == "FetchFailed"

\* [u8]::is_ascii
is_ascii(buf) == \A i \in 1..Len(buf) : buf[i] < 128

\* str::trim_matches(char::from(0)): strips the NULs at both ends only.
trim_matches_nul(buf) ==
    LET keep == {i \in 1..Len(buf) : buf[i] # 0}
    IN IF keep = {} THEN <<>>
       ELSE LET lo == CHOOSE i \in keep : \A j \in keep : i <= j
                hi == CHOOSE i \in keep : \A j \in keep : i >= j
            IN SubSeq(buf, lo, hi)

\* out.iter().position(|&b| b == 0) followed by out.truncate(first)
truncate_at_nul(out) ==
    LET nuls == {i \in 1..Len(out) : out[i] = 0}
    IN IF nuls = {} THEN out
       ELSE SubSeq(out, 1, (CHOOSE i \in nuls : \A j \in nuls : i <= j) - 1)

\* String::from_utf8 succeeds exactly on well-formed UTF-8.
IsCont(b) == b >= 128 /\ b <= 191
RECURSIVE ValidUtf8(_)
ValidUtf8(s) ==
    IF s = <<>> THEN TRUE
    ELSE LET b == s[1] n == Len(s) IN
         IF b < 128 THEN ValidUtf8(Tail(s))
         ELSE IF b >= 194 /\ b <= 223
              THEN n >= 2 /\ IsCont(s[2]) /\ ValidUtf8(SubSeq(s, 3, n))
         ELSE IF b >= 224 /\ b <= 239
              THEN n >= 3 /\ IsCont(s[2]) /\ IsCont(s[3])
                   /\ (b = 224 => s[2] >= 160) /\ (b = 237 => s[2] <= 159)
                   /\ ValidUtf8(SubSeq(s, 4, n))
         ELSE IF b >= 240 /\ b <= 244
              THEN n >= 4 /\ IsCont(s[2]) /\ IsCont(s[3]) /\ IsCont(s[4])
                   /\ (b = 240 => s[2] >= 144) /\ (b = 244 => s[2] <= 143)
                   /\ ValidUtf8(SubSeq(s, 5, n))
         ELSE FALSE

----------------------------------------------------------------------------
(* metadata/reader.rs: read_tag_value and read_tag *)

\* Case 4 loops: `for _ in 0..count { v.push(Value::X(cursor.read_x().await?)) }`,
\* one fetch per number read (two per rational), stopping at the first failure.
\* The fetches element i (from 1) makes, and whether they succeed.
ElemAt(off, t, i) == off + (i - 1) * tag_size(t)
ElemFetched(f, off, t, i) ==
    IF t \in {RATIONAL, SRATIONAL}
    THEN Fetch(f, ElemAt(off, t, i), ElemAt(off, t, i) + 4).ok
         /\ Fetch(f, ElemAt(off, t, i) + 4, ElemAt(off, t, i) + 8).ok
    ELSE Fetch(f, ElemAt(off, t, i), ElemAt(off, t, i) + tag_size(t)).ok
ElemLog(f, off, t, i) ==
    IF t \in {RATIONAL, SRATIONAL}
    THEN <<Range(ElemAt(off, t, i), ElemAt(off, t, i) + 4, TRUE)>>
         \o (IF Fetch(f, ElemAt(off, t, i), ElemAt(off, t, i) + 4).ok
             THEN <<Range(ElemAt(off, t, i) + 4, ElemAt(off, t, i) + 8, TRUE)>>
             ELSE <<>>)
    ELSE <<Range(ElemAt(off, t, i), ElemAt(off, t, i) + tag_size(t), TRUE)>>
ReadElems(f, off, t, n, e) ==
    LET bad == {i \in 1..n : ~ElemFetched(f, off, t, i)}
        last == IF bad = {} THEN n ELSE CHOOSE i \in bad : \A j \in bad : i <= j
    IN [ok |-> bad = {},
        items |-> IF bad = {}
                  THEN [i \in 1..n |->
                           Scalar(t, Fetch(f, ElemAt(off, t, i),
                                           ElemAt(off, t, i) + tag_size(t)).bytes, e)]
                  ELSE <<>>,
        log |-> Flatten([i \in 1..last |-> ElemLog(f, off, t, i)])]

\* Case 3 lists: `(0..count).map(|_| Value::X(data.read_x()))` over the fetched data.
MutListOf(t, data, count, e) ==
    LET size == tag_size(t)
    IN List([i \in 1..count |->
                Scalar(t, SubSeq(data, (count - i) * size + 1, (count - i + 1) * size), e)])
ListOf(t, data, count, e) ==
    LET size == tag_size(t)
    IN List([i \in 1..count |-> Scalar(t, SubSeq(data, (i - 1) * size + 1, i * size), e)])

\* Case 3 guard: `value_byte_length <= 4 || bigtiff && value_byte_length <= 8`
MutFitsInField(vbl, big) == vbl <= 4
FitsInField(vbl, big) == vbl <= 4 \/ (big /\ vbl <= 8)

\* Case 2: there is one value.
Case2(f, off, t, big, e) ==
    LET vbl == tag_size(t)
        r == Fetch(f, off, off + vbl)
        log == <<Range(off, off + vbl, FALSE)>>
    IN IF ~r.ok THEN ErrR(FetchFailed, log)
       \* 2a: the value is 5-8 bytes and we're in BigTiff mode.
       ELSE IF big /\ vbl > 4 /\ vbl <= 8 THEN OkR(Scalar(t, r.bytes, e), log)
       \* 2b
       ELSE IF t = ASCII
            THEN IF r.bytes[1] = 0 THEN OkR(Ascii(<<>>), log)
                 ELSE PanicR("Invalid tag", log)
       ELSE IF vbl <= 4 THEN OkR(Scalar(t, r.bytes, e), log)
       ELSE \* 8-byte types of classic TIFF: the first 4 bytes are an offset
            LET offset == ToNat(EndianRead(SubSeq(r.bytes, 1, 4), e))
                el == ReadElems(f, offset, t, 1, e)
            IN IF el.ok THEN OkR(el.items[1], log \o el.log)
               ELSE ErrR(FetchFailed, log \o el.log)

\* Case 3: more than one value, fitting the offset field.
Case3(f, off, t, count, e) ==
    LET vbl == count * tag_size(t)
        r == Fetch(f, off, off + vbl)
        log == <<Range(off, off + vbl, FALSE)>>
    IN IF ~r.ok THEN ErrR(FetchFailed, log)
       ELSE IF t = ASCII
            THEN IF is_ascii(r.bytes) /\ r.bytes[count] = 0
                 THEN OkR(Ascii(trim_matches_nul(r.bytes)), log)
                 ELSE PanicR("Invalid tag", log)
       ELSE OkR(ListOf(t, r.bytes, count, e), log)

\* Case 4: more than one value, not fitting the offset field.
Case4(f, off, t, count, big, e) ==
    LET pw == IF big THEN 8 ELSE 4
        p == Fetch(f, off, off + pw)
        log == <<Range(off, off + pw, FALSE)>>
        offset == ToNat(EndianRead(p.bytes, e))
    IN IF ~p.ok THEN ErrR(FetchFailed, log)
       ELSE IF t = ASCII
            THEN LET r == Fetch(f, offset, offset + count)
                     log2 == log \o <<Range(offset, offset + count, TRUE)>>
                     out == truncate_at_nul(r.bytes)
                 IN IF ~r.ok THEN ErrR(FetchFailed, log2)
                    ELSE IF ValidUtf8(out) THEN OkR(Ascii(out), log2)
                    ELSE ErrR("General", log2)
       ELSE LET el == ReadElems(f, offset, t, count, e)
            IN IF el.ok THEN OkR(List(el.items), log \o el.log)
               ELSE ErrR(FetchFailed, log \o el.log)

\* read_tag_value(cursor, tag_type, count, bigtiff) with the cursor at off.
read_tag_value(f, off, t, count, big, e) ==
    IF count = 0 THEN OkR(List(<<>>), <<>>)
    ELSE IF count = 1 THEN Case2(f, off, t, big, e)
    ELSE IF FitsInField(count * tag_size(t), big) THEN Case3(f, off, t, count, e)
    ELSE Case4(f, off, t, count, big, e)

\* read_tag(fetch, tag_offset, endianness, bigtiff): the tag with the result.
\* Tag::from_u16_exhaustive keeps the 16-bit number (known name or Unknown(n)).
WithTag(tag, res) == [tag |-> tag, res |-> res]
read_tag(f, tag_offset, e, big) ==
    LET cw == IF big THEN 8 ELSE 4
        o == tag_offset
        r1 == Fetch(f, o, o + 2)
        r2 == Fetch(f, o + 2, o + 4)
        r3 == Fetch(f, o + 4, o + 4 + cw)
        log1 == <<Range(o, o + 2, FALSE)>>
        log2 == log1 \o <<Range(o + 2, o + 4, FALSE)>>
        log3 == log2 \o <<Range(o + 4, o + 4 + cw, FALSE)>>
        tag == ToNat(EndianRead(r1.bytes, e))
        code == ToNat(EndianRead(r2.bytes, e))
        count == ToNat(EndianRead(r3.bytes, e))
    IN IF ~r1.ok THEN WithTag(0, ErrR(FetchFailed, log1))
       ELSE IF ~r2.ok THEN WithTag(tag, ErrR(FetchFailed, log2))
       ELSE IF code \notin Types THEN WithTag(tag, PanicR("Unknown tag type", log2))
       ELSE IF ~r3.ok THEN WithTag(tag, ErrR(FetchFailed, log3))
       ELSE LET v == read_tag_value(f, o + 4 + cw, code, count, big, e)
            IN WithTag(tag, [v EXCEPT !.fetches = log3 \o v.fetches])

----------------------------------------------------------------------------
(* Writing an entry, as the tests of metadata/reader.rs lay their buffers out *)

\* A logical entry: [tag, type, count, elems, at]; an element is the digits of
\* its numbers (one digit string, two for a rational).
ElemBytes(el, e) == Flatten([i \in 1..Len(el) |-> Store(el[i], e)])
ValueBytes(en, e) == Flatten([i \in 1..Len(en.elems) |-> ElemBytes(en.elems[i], e)])
FieldWidth(big) == IF big THEN 8 ELSE 4
EntryWidth(big) == IF big THEN 20 ELSE 12
InField(en, big) == en.count * tag_size(en.type) <= FieldWidth(big)

\* The bytes of the entry, its value stored at dataOff when it does not fit.
EntryBytes(en, e, big, dataOff) ==
    LET fw == FieldWidth(big)
        vb == ValueBytes(en, e)
    IN Store(Digits(en.tag, 2), e) \o Store(Digits(en.type, 2), e)
       \o Store(Digits(en.count, fw), e)
       \o (IF InField(en, big) THEN vb \o Zeros(fw - Len(vb))
           ELSE Store(Digits(dataOff, fw), e))

\* A buffer holding the entry at offset en.at and its out-of-line value behind it.
EntryFile(en, e, big) ==
    LET dataOff == en.at + EntryWidth(big)
    IN Zeros(en.at) \o EntryBytes(en, e, big, dataOff)
       \o (IF InField(en, big) THEN <<>> ELSE ValueBytes(en, e))

----------------------------------------------------------------------------
(* The tag codec runs: one logical entry, written in each byte order and    *)
(* layout and read back by read_tag                                         *)

\* Numbers an element is drawn from: 42, and one with every byte different
\* and the sign bit set.
ElemDigits(w) == {Zeros(w - 1) \o <<42>>, [i \in 1..w |-> 250 + i]}
ElemsOf(t) ==
    IF t \in {RATIONAL, SRATIONAL}
    THEN {<<n, d>> : n \in ElemDigits(4), d \in ElemDigits(4)}
    ELSE {<<x>> : x \in ElemDigits(tag_size(t))}

\* Counts reach past the 8-byte value field by MaxExtra elements.
CountLimit(t) == (8 \div tag_size(t)) + MaxExtra

\* Strings: 'A's with at most two bytes replaced by a NUL or by a non-ASCII byte.
AsciiSpecial == {0, 200}
AsciiStrings(n) ==
    {[i \in 1..n |-> IF i = p THEN a ELSE IF i = q THEN b ELSE 65] :
        p \in 0..n, q \in 0..n, a \in AsciiSpecial, b \in AsciiSpecial}

\* Element lists: a first element and one repeated after it.
ElemLists(t, n) ==
    IF t = ASCII THEN {[i \in 1..n |-> <<<<s[i]>>>>] : s \in AsciiStrings(n)}
    ELSE {[i \in 1..n |-> IF i = 1 THEN a ELSE b] : a \in ElemsOf(t), b \in ElemsOf(t)}

TagIds == {257, 258}
EntryOffsets == {0, 3}
Entries ==
    UNION {UNION {{[tag |-> g, type |-> t, count |-> n, elems |-> els, at |-> o] :
                      g \in TagIds, o \in EntryOffsets, els \in ElemLists(t, n)} :
                  n \in 0..CountLimit(t)} : t \in Types}

Variants == {<<e, big>> : e \in Endiannesses, big \in BOOLEAN}

InitTag ==
    /\ entry \in Entries
    /\ parsed = [v \in Variants |-> WithTag(0, NotRun)]
    /\ file = <<>> /\ layout = Idle /\ pc = "codec"
    /\ endianness = LittleEndian /\ bigtiff = FALSE /\ next_ifd_offset = <<>>
    /\ ifd_reader = Idle /\ tag_idx = 0 /\ tags = <<>> /\ ifds = <<>>
    /\ visited = <<>> /\ fetch_log = <<>> /\ outcome = NotRun /\ cursor = Idle
    /\ ifd = Idle /\ request = Idle /\ prefetch = Idle /\ predictor_info = Idle

\* The test loop: `read_tag(&fetch, at, byte_order, bigtiff).await` on the
\* buffer written for that byte order and layout.
ReadTagRun(e, big) ==
    /\ pc = "codec"
    /\ parsed[<<e, big>>].res.kind = "NotRun"
    /\ parsed' = [parsed EXCEPT ![<<e, big>>] =
                     read_tag(EntryFile(entry, e, big), entry.at, e, big)]
    /\ UNCHANGED <<file, layout, pc, endianness, bigtiff, next_ifd_offset, ifd_reader,
                   tag_idx, tags, ifds, visited, fetch_log, outcome, cursor, entry>>
    /\ UNCHANGED chunkVars

NextTag == \E e \in Endiannesses, big \in BOOLEAN : ReadTagRun(e, big)

SpecTag == InitTag /\ [][NextTag]_vars

----------------------------------------------------------------------------
(* metadata/reader.rs: TiffMetadataReader and ImageFileDirectoryReader *)

None == <<>>
Some(x) == <<x>>

TiffSignatureInvalid == "FormatError(TiffSignatureInvalid)"
TiffSignatureNotFound == "FormatError(TiffSignatureNotFound)"
General == "General"

\* `if bigtiff { cursor.read_u64() } else { cursor.read_u32().into() }` at off:
\* the width read, then the value and its fetch.
MutOffsetWidth(big) == 4
OffsetWidth(big) == IF big THEN 8 ELSE 4
ReadOffset(f, off, e, big) ==
    LET r == Fetch(f, off, off + OffsetWidth(big))
    IN [ok |-> r.ok, value |-> ToU64(EndianRead(r.bytes, e)),
        log |-> <<Range(off, off + OffsetWidth(big), FALSE)>>]

\* cursor.read_u16() at off.
ReadU16(f, off, e) ==
    LET r == Fetch(f, off, off + 2)
    IN [ok |-> r.ok, value |-> ToNat(EndianRead(r.bytes, e)),
        log |-> <<Range(off, off + 2, FALSE)>>]

\* The result of an open: the reader's fields on success.
Opened(e, big, next, log) ==
    [kind |-> "Ok", err |-> "", endianness |-> e, bigtiff |-> big,
     next_ifd_offset |-> next, fetches |-> log]
OpenErr(err, log) ==
    [kind |-> "Err", err |-> err, endianness |-> LittleEndian, bigtiff |-> FALSE,
     next_ifd_offset |-> None, fetches |-> log]

\* TiffMetadataReader::try_open(fetch)
try_open(f) ==
    LET magic == Fetch(f, 0, 2)
        log0 == <<Range(0, 2, FALSE)>>
        e == IF magic.bytes = <<73, 73>> THEN LittleEndian ELSE BigEndian
        version == ReadU16(f, 2, e)
        log1 == log0 \o version.log
        size == ReadU16(f, 4, e)
        log2 == log1 \o size.log
        zero == ReadU16(f, 6, e)
        log3 == log2 \o zero.log
        big == version.value = 43
        first == ReadOffset(f, IF big THEN 8 ELSE 4, e, big)
        logn == (IF big THEN log3 ELSE log1) \o first.log
    IN IF ~magic.ok THEN OpenErr(FetchFailed, log0)
       ELSE IF magic.bytes # <<73, 73>> /\ magic.bytes # <<77, 77>>
            THEN OpenErr(General, log0)
       ELSE IF ~version.ok THEN OpenErr(FetchFailed, log1)
       ELSE IF version.value # 42 /\ version.value # 43
            THEN OpenErr(TiffSignatureInvalid, log1)
       ELSE IF big /\ ~size.ok THEN OpenErr(FetchFailed, log2)
       ELSE IF big /\ size.value # 8 THEN OpenErr(TiffSignatureNotFound, log2)
       ELSE IF big /\ ~zero.ok THEN OpenErr(FetchFailed, log3)
       ELSE IF big /\ zero.value # 0 THEN OpenErr(TiffSignatureNotFound, log3)
       ELSE IF ~first.ok THEN OpenErr(FetchFailed, logn)
       ELSE Opened(e, big, Some(first.value), logn)

\* AsyncCursor::try_open_tiff(reader): the cursor behind the magic bytes.
try_open_tiff(f) ==
    LET magic == Fetch(f, 0, 2)
    IN IF ~magic.ok THEN [kind |-> "Err", err |-> FetchFailed]
       ELSE IF magic.bytes = <<73, 73>>
            THEN [kind |-> "Ok", offset |-> 2, endianness |-> LittleEndian]
       ELSE IF magic.bytes = <<77, 77>>
            THEN [kind |-> "Ok", offset |-> 2, endianness |-> BigEndian]
       ELSE [kind |-> "Err", err |-> General]

\* ImageFileDirectoryReader::open(fetch, ifd_start_offset, bigtiff, endianness)
ifd_open(f, ifd_start_offset, big, e) ==
    LET tcbs == IF big THEN 8 ELSE 2
        r == Fetch(f, ifd_start_offset, ifd_start_offset + tcbs)
    IN [ok |-> r.ok,
        log |-> <<Range(ifd_start_offset, ifd_start_offset + tcbs, FALSE)>>,
        reader |-> [kind |-> "Reader",
                    ifd_start_offset |-> ifd_start_offset,
                    tag_count |-> ToNat(EndianRead(r.bytes, e)),
                    ifd_entry_byte_size |-> IF big THEN 20 ELSE 12,
                    tag_count_byte_size |-> tcbs]]

\* ImageFileDirectoryReader::read_tag: the offset of entry tag_idx.
TagOffset(rd, idx) ==
    rd.ifd_start_offset + rd.tag_count_byte_size + rd.ifd_entry_byte_size * idx

\* ImageFileDirectoryReader::read: `for tag_idx in 0..self.tag_count`, stopping
\* at the first entry that fails. Entries are numbered from 0.
TagAt(f, rd, idx, e, big) == read_tag(f, TagOffset(rd, idx), e, big)
AllTags(f, rd, e, big) == [i \in 1..rd.tag_count |-> TagAt(f, rd, i - 1, e, big)]
TagFails(all, i) == all[i].res.kind # "Ok"
FirstFailure(all) ==
    IF \E i \in 1..Len(all) : TagFails(all, i)
    THEN CHOOSE i \in 1..Len(all) : TagFails(all, i) /\ \A j \in 1..(i - 1) : ~TagFails(all, j)
    ELSE Len(all) + 1
ReadUntilFailure(all, stop) ==
    IF stop <= Len(all)
    THEN [kind |-> all[stop].res.kind, err |-> all[stop].res.err, read |-> <<>>,
          log |-> Flatten([i \in 1..stop |-> all[i].res.fetches])]
    ELSE [kind |-> "Ok", err |-> "",
          read |-> [i \in 1..Len(all) |-> [tag |-> all[i].tag, value |-> all[i].res.value]],
          log |-> Flatten([i \in 1..Len(all) |-> all[i].res.fetches])]
ReadTags(f, rd, e, big) ==
    CHOOSE r \in {ReadUntilFailure(all, FirstFailure(all)) : all \in {AllTags(f, rd, e, big)}} :
        TRUE

\* ImageFileDirectoryReader::finish: where the next-IFD offset is read, and the
\* normalisation of a stored 0.
MutNextIfdByteOffset(rd) ==
    rd.ifd_start_offset + rd.tag_count_byte_size + rd.ifd_entry_byte_size * (rd.tag_count + 1)
NextIfdByteOffset(rd) ==
    rd.ifd_start_offset + rd.tag_count_byte_size + rd.ifd_entry_byte_size * rd.tag_count
MutNormalize(next_offset) == Some(next_offset)
Normalize(next_offset) == IF next_offset = Zeros(8) THEN None ELSE Some(next_offset)
finish(f, rd, e, big) ==
    LET r == ReadOffset(f, NextIfdByteOffset(rd), e, big)
    IN [ok |-> r.ok, log |-> r.log, next |-> Normalize(r.value)]

\* ifd.rs, ImageFileDirectory::from_tags: the tags go into a HashMap (a later
\* entry of the same tag replaces an earlier one); the fields the struct needs
\* are taken with `.expect(..)`, which panics when the tag is absent.
RequiredTags == <<277, 256, 257, 258, 262>>
RequiredMessage ==
    <<"samples_per_pixel not found", "image_width not found", "image_height not found",
      "bits per sample not found", "photometric interpretation not found">>
TagIdsOf(read) == {read[i].tag : i \in 1..Len(read)}
ValueOfTag(read, tag) ==
    LET at == {i \in 1..Len(read) : read[i].tag = tag}
    IN read[CHOOSE i \in at : \A j \in at : j <= i].value
\* Value::into_u16 / into_u32 on a scalar and Value::into_u64_vec on a scalar
\* or a list (the vendored tiff::ifd::Value): the numbers the value holds.
into_u32(v) == ToNat(v.val[1])
into_u64_vec(v) ==
    IF v.kind = "List" THEN [i \in 1..Len(v.val) |-> ToNat(v.val[i].val[1])]
    ELSE <<ToNat(v.val[1])>>
\* `let mut field = None; ... Tag::X => field = Some(value.into_..()?)`
OptionU32(read, tag) ==
    IF tag \in TagIdsOf(read) THEN Some(into_u32(ValueOfTag(read, tag))) ELSE None
OptionVec(read, tag) ==
    IF tag \in TagIdsOf(read) THEN Some(into_u64_vec(ValueOfTag(read, tag))) ELSE None
\* compression.unwrap_or(CompressionMethod::None): None is compression 1.
CompressionOf(read) ==
    IF 259 \in TagIdsOf(read) THEN into_u32(ValueOfTag(read, 259)) ELSE 1
\* `Ok(Self { .. })`: the fields of the struct that the chunk operations read.
IfdOf(read) ==
    [image_width |-> ValueOfTag(read, 256),
     image_height |-> ValueOfTag(read, 257),
     tags |-> TagIdsOf(read),
     compression |-> CompressionOf(read),
     photometric_interpretation |-> into_u32(ValueOfTag(read, 262)),
     jpeg_tables |-> IF 347 \in TagIdsOf(read) THEN Some(ValueOfTag(read, 347)) ELSE None,
     strip_offsets |-> OptionVec(read, 273),
     rows_per_strip |-> OptionU32(read, 278),
     strip_byte_counts |-> OptionVec(read, 279),
     tile_width |-> OptionU32(read, 322),
     tile_height |-> OptionU32(read, 323),
     tile_offsets |-> OptionVec(read, 324),
     tile_byte_counts |-> OptionVec(read, 325)]
FirstMissing(read, required) ==
    LET missing == {k \in 1..Len(required) : required[k] \notin TagIdsOf(read)}
    IN IF missing = {} THEN 0 ELSE CHOOSE k \in missing : \A j \in missing : k <= j
from_tags(read) ==
    IF FirstMissing(read, RequiredTags) # 0
    THEN [kind |-> "Panic", err |-> RequiredMessage[FirstMissing(read, RequiredTags)],
          ifd |-> Idle]
    ELSE [kind |-> "Ok", err |-> "", ifd |-> IfdOf(read)]

----------------------------------------------------------------------------
(* Files: a header and a chain of IFDs, written as tests/image_tiff files are *)

\* The entries of IFD number i of a file of the given kind, in tag order. The
\* image width of IFD i is i, which tells the IFDs of a file apart.
Entry(tag, type, elems) == [tag |-> tag, type |-> type, count |-> Len(elems), elems |-> elems]
IfdEntries(kind, i) ==
    <<Entry(256, LONG, <<<<Digits(i, 4)>>>>), Entry(257, LONG, <<<<Digits(1, 4)>>>>),
      Entry(258, SHORT, <<<<Digits(8, 2)>>>>), Entry(262, SHORT, <<<<Digits(1, 2)>>>>)>>
    \o (IF kind = "OutOfLine"
        THEN <<Entry(273, LONG, <<<<Digits(8, 4)>>, <<Digits(9, 4)>>, <<Digits(10, 4)>>>>)>>
        ELSE <<>>)
    \o (IF kind = "Missing" THEN <<>> ELSE <<Entry(277, SHORT, <<<<Digits(1, 2)>>>>)>>)
    \o (IF kind = "OutOfLine"
        THEN <<Entry(282, RATIONAL, <<<<Digits(72, 4), Digits(1, 4)>>>>)>>
        ELSE <<>>)
Kinds == {"Plain", "OutOfLine", "Missing"}

\* The entries one after the other, out-of-line values gathered behind them.
OutOfLineBytes(en, e, big) == IF InField(en, big) THEN <<>> ELSE ValueBytes(en, e)
DataBytes(ens, e, big) == Flatten([j \in 1..Len(ens) |-> OutOfLineBytes(ens[j], e, big)])
RECURSIVE DataLen(_, _, _)
DataLen(ens, n, big) ==
    IF n = 0 THEN 0
    ELSE DataLen(ens, n - 1, big)
         + (IF InField(ens[n], big) THEN 0 ELSE ens[n].count * tag_size(ens[n].type))
LayEntries(ens, e, big, dataOff) ==
    Flatten([j \in 1..Len(ens) |->
                EntryBytes(ens[j], e, big, dataOff + DataLen(ens, j - 1, big))])

TagCountWidth(big) == IF big THEN 8 ELSE 2
SpanLen(ntags, big) == TagCountWidth(big) + ntags * EntryWidth(big) + FieldWidth(big)

\* One IFD at offset start: tag count, entries, next-IFD offset, then the
\* out-of-line values.
IfdBlock(ens, e, big, start, nextOff) ==
    Store(Digits(Len(ens), TagCountWidth(big)), e)
    \o LayEntries(ens, e, big, start + SpanLen(Len(ens), big))
    \o Store(Digits(nextOff, FieldWidth(big)), e) \o DataBytes(ens, e, big)

HeaderLen(big) == IF big THEN 16 ELSE 8
HeaderBytes(e, big, firstOff) ==
    (IF e = LittleEndian THEN <<73, 73>> ELSE <<77, 77>>)
    \o Store(Digits(IF big THEN 43 ELSE 42, 2), e)
    \o (IF big THEN Store(Digits(8, 2), e) \o Store(Digits(0, 2), e) ELSE <<>>)
    \o Store(Digits(firstOff, FieldWidth(big)), e)

\* A layout: byte order, variant, n IFDs stored in order, the IFD the header
\* points to and, for each IFD, the IFD its next-offset points to (0: none).
Layouts ==
    UNION {{[kind |-> k, endianness |-> e, bigtiff |-> big, n |-> n, first |-> fst, next |-> nx] :
               k \in Kinds, e \in Endiannesses, big \in BOOLEAN,
               fst \in 1..n, nx \in [1..n -> 0..n]} : n \in 1..MaxIfds}

BlockLenOf(ens, big) == SpanLen(Len(ens), big) + DataLen(ens, Len(ens), big)
BlockLen(l) == CHOOSE n \in {BlockLenOf(ens, l.bigtiff) : ens \in {IfdEntries(l.kind, 1)}} : TRUE
IfdOffset(l, i) == IF i = 0 THEN 0 ELSE HeaderLen(l.bigtiff) + (i - 1) * BlockLen(l)
BlockOf(l, i) ==
    CHOOSE b \in {IfdBlock(ens, l.endianness, l.bigtiff, start, nextOff) :
                     ens \in {IfdEntries(l.kind, i)}, start \in {IfdOffset(l, i)},
                     nextOff \in {IfdOffset(l, l.next[i])}} : TRUE
BuildFile(l) ==
    HeaderBytes(l.endianness, l.bigtiff, IfdOffset(l, l.first))
    \o Flatten([i \in 1..l.n |-> BlockOf(l, i)])

----------------------------------------------------------------------------
(* The walk: try_open, then read_all_ifds, one IFD after the other *)

\* The model follows a chain for at most MaxReads IFDs.
MaxReads == MaxIfds + 2

Init ==
    /\ layout \in Layouts
    /\ file = BuildFile(layout)
    /\ pc = "start"
    /\ endianness = LittleEndian /\ bigtiff = FALSE /\ next_ifd_offset = None
    /\ ifd_reader = Idle /\ tag_idx = 0 /\ tags = <<>> /\ ifds = <<>>
    /\ visited = <<>> /\ fetch_log = <<>> /\ outcome = NotRun /\ cursor = Idle
    /\ entry = Idle /\ parsed = Idle
    /\ ifd = Idle /\ request = Idle /\ prefetch = Idle /\ predictor_info = Idle

\* let mut metadata_reader = TiffMetadataReader::try_open(&fetch).await?
TryOpen ==
    /\ pc = "start"
    /\ LET r == try_open(file)
       IN /\ fetch_log' = r.fetches
          /\ outcome' = [kind |-> r.kind, value |-> NoValue, err |-> r.err,
                         fetches |-> r.fetches]
          /\ IF r.kind = "Ok"
             THEN /\ endianness' = r.endianness /\ bigtiff' = r.bigtiff
                  /\ next_ifd_offset' = r.next_ifd_offset
                  /\ pc' = "walk"
             ELSE /\ pc' = "failed"
                  /\ UNCHANGED <<endianness, bigtiff, next_ifd_offset>>
    /\ UNCHANGED <<file, layout, ifd_reader, tag_idx, tags, ifds, visited, cursor,
                   entry, parsed>>
    /\ UNCHANGED chunkVars

\* read_next_ifd, `if let Some(ifd_start) = self.next_ifd_offset`:
\* ImageFileDirectoryReader::open at that offset.
ReadNextIfdOpen ==
    /\ pc = "walk" /\ next_ifd_offset # None
    /\ Len(visited) < MaxReads
    /\ LET ifd_start == ToNat(next_ifd_offset[1])
           o == ifd_open(file, ifd_start, bigtiff, endianness)
       IN /\ visited' = Append(visited, ifd_start)
          /\ fetch_log' = o.log
          /\ IF o.ok
             THEN ifd_reader' = o.reader /\ pc' = "ifd_open" /\ UNCHANGED outcome
             ELSE /\ pc' = "failed" /\ outcome' = ErrR(FetchFailed, o.log)
                  /\ UNCHANGED ifd_reader
    /\ tag_idx' = 0 /\ tags' = <<>>
    /\ UNCHANGED <<file, layout, endianness, bigtiff, next_ifd_offset, ifds, cursor,
                   entry, parsed>>
    /\ UNCHANGED chunkVars

\* let ifd = ifd_reader.read(fetch).await?
IfdReadWith(t, ft) ==
    /\ fetch_log' = fetch_log \o t.log
    /\ tag_idx' = Len(t.read)
    /\ tags' = t.read
    /\ IF t.kind = "Ok" /\ ft.kind = "Ok" THEN pc' = "ifd_read" /\ UNCHANGED outcome
       ELSE IF t.kind = "Ok"
            THEN pc' = "panicked" /\ outcome' = PanicR(ft.err, fetch_log \o t.log)
       ELSE /\ pc' = (IF t.kind = "Panic" THEN "panicked" ELSE "failed")
            /\ outcome' = [kind |-> t.kind, value |-> NoValue, err |-> t.err,
                           fetches |-> fetch_log \o t.log]
IfdRead ==
    /\ pc = "ifd_open"
    /\ \E t \in {ReadTags(file, ifd_reader, endianness, bigtiff)} :
          \E ft \in {from_tags(t.read)} : IfdReadWith(t, ft)
    /\ UNCHANGED <<file, layout, endianness, bigtiff, next_ifd_offset, ifd_reader, ifds,
                   visited, cursor, entry, parsed>>
    /\ UNCHANGED chunkVars

\* a finish that stores what it read of the offset although the read failed
MutIfdFinish ==
    /\ pc = "ifd_read"
    /\ LET fin == finish(file, ifd_reader, endianness, bigtiff)
       IN /\ fetch_log' = fetch_log \o fin.log
          /\ IF fin.ok
             THEN /\ next_ifd_offset' = fin.next
                  /\ ifds' = Append(ifds, from_tags(tags).ifd)
                  /\ pc' = "walk" /\ UNCHANGED outcome
             ELSE /\ pc' = "failed"
                  /\ outcome' = ErrR(FetchFailed, fetch_log \o fin.log)
                  /\ next_ifd_offset' = None
                  /\ UNCHANGED ifds
    /\ ifd_reader' = Idle
    /\ UNCHANGED <<file, layout, endianness, bigtiff, tag_idx, tags, visited, cursor,
                   entry, parsed>>
    /\ UNCHANGED chunkVars

\* let next_ifd_offset = ifd_reader.finish(fetch).await?;
\* self.next_ifd_offset = next_ifd_offset; and the caller's ifds.push(ifd)
IfdFinish ==
    /\ pc = "ifd_read"
    /\ LET fin == finish(file, ifd_reader, endianness, bigtiff)
       IN /\ fetch_log' = fetch_log \o fin.log
          /\ IF fin.ok
             THEN /\ next_ifd_offset' = fin.next
                  /\ ifds' = Append(ifds, from_tags(tags).ifd)
                  /\ pc' = "walk" /\ UNCHANGED outcome
             ELSE /\ pc' = "failed"
                  /\ outcome' = ErrR(FetchFailed, fetch_log \o fin.log)
                  /\ UNCHANGED <<next_ifd_offset, ifds>>
    /\ ifd_reader' = Idle
    /\ UNCHANGED <<file, layout, endianness, bigtiff, tag_idx, tags, visited, cursor,
                   entry, parsed>>
    /\ UNCHANGED chunkVars

\* read_next_ifd returns Ok(None): read_all_ifds returns Ok(ifds).
ReadAllDone ==
    /\ pc = "walk" /\ next_ifd_offset = None
    /\ pc' = "done"
    /\ outcome' = OkR(NoValue, <<>>)
    /\ UNCHANGED <<file, layout, endianness, bigtiff, next_ifd_offset, ifd_reader,
                   tag_idx, tags, ifds, visited, fetch_log, cursor, entry, parsed>>
    /\ UNCHANGED chunkVars

Next == TryOpen \/ ReadNextIfdOpen \/ IfdRead \/ IfdFinish \/ ReadAllDone

Spec == Init /\ [][Next]_vars

\* the caller drops the future of read_next_ifd at a suspension point: the
\* ImageFileDirectoryReader and the tags read so far are locals of the future
DropFuture ==
    /\ pc \in {"ifd_open", "ifd_read"}
    /\ pc' = "walk"
    /\ ifd_reader' = Idle /\ tag_idx' = 0 /\ tags' = <<>>
    /\ UNCHANGED <<file, layout, endianness, bigtiff, next_ifd_offset, ifds, visited,
                   fetch_log, outcome, cursor, entry, parsed>>
    /\ UNCHANGED chunkVars

\* the caller calls read_next_ifd again after it returned an error
Retry ==
    /\ pc = "failed" /\ visited # <<>>
    /\ pc' = "walk"
    /\ outcome' = NotRun
    /\ UNCHANGED <<file, layout, endianness, bigtiff, next_ifd_offset, ifd_reader, tag_idx,
                   tags, ifds, visited, fetch_log, cursor, entry, parsed>>
    /\ UNCHANGED chunkVars

\* read_next_ifd with no IFD left: Ok(None), again and again
ReadNextNone ==
    /\ pc = "done"
    /\ outcome' = OkR(NoValue, <<>>)
    /\ fetch_log' = <<>>
    /\ UNCHANGED <<file, layout, pc, endianness, bigtiff, next_ifd_offset, ifd_reader,
                   tag_idx, tags, ifds, visited, cursor, entry, parsed>>
    /\ UNCHANGED chunkVars

NextRetry ==
    TryOpen \/ ReadNextIfdOpen \/ IfdRead \/ IfdFinish \/ ReadAllDone \/ DropFuture \/ Retry
    \/ ReadNextNone

\* the files of Init, whole or cut short at the end
InitRetry ==
    /\ layout \in Layouts
    /\ \E cut \in {0, 4} :
          file = SubSeq(BuildFile(layout), 1,
                        IF Len(BuildFile(layout)) > cut THEN Len(BuildFile(layout)) - cut ELSE 0)
    /\ pc = "start"
    /\ endianness = LittleEndian /\ bigtiff = FALSE /\ next_ifd_offset = None
    /\ ifd_reader = Idle /\ tag_idx = 0 /\ tags = <<>> /\ ifds = <<>>
    /\ visited = <<>> /\ fetch_log = <<>> /\ outcome = NotRun /\ cursor = Idle
    /\ entry = Idle /\ parsed = Idle
    /\ ifd = Idle /\ request = Idle /\ prefetch = Idle /\ predictor_info = Idle

SpecRetry == InitRetry /\ [][NextRetry]_vars

----------------------------------------------------------------------------
(* Opening headers of every shape *)

Magics == {<<73, 73>>, <<77, 77>>, <<73, 77>>, <<0, 0>>}
VersionBytes == {<<42, 0>>, <<0, 42>>, <<43, 0>>, <<0, 43>>, <<44, 0>>, <<0, 0>>}
Bytes4To8 ==
    {<<8, 0, 0, 0>>, <<0, 8, 0, 0>>, <<8, 0, 1, 0>>, <<0, 8, 0, 1>>, <<16, 0, 0, 0>>,
     <<0, 0, 0, 16>>, <<0, 0, 1, 0>>}
Bytes8To16 ==
    {<<16, 0, 0, 0, 0, 0, 0, 0>>, <<0, 0, 0, 0, 0, 0, 0, 16>>, <<1, 2, 3, 4, 5, 6, 7, 8>>}
Headers ==
    {m \o v \o a : m \in Magics, v \in VersionBytes, a \in Bytes4To8}
    \cup {m \o v \o a \o b : m \in Magics, v \in VersionBytes, a \in Bytes4To8, b \in Bytes8To16}

InitOpen ==
    /\ file \in Headers
    /\ layout = Idle /\ pc = "start"
    /\ endianness = LittleEndian /\ bigtiff = FALSE /\ next_ifd_offset = None
    /\ ifd_reader = Idle /\ tag_idx = 0 /\ tags = <<>> /\ ifds = <<>>
    /\ visited = <<>> /\ fetch_log = <<>> /\ outcome = NotRun /\ cursor = Idle
    /\ entry = Idle /\ parsed = Idle
    /\ ifd = Idle /\ request = Idle /\ prefetch = Idle /\ predictor_info = Idle

\* let mut cursor = AsyncCursor::try_open_tiff(reader).await?
CursorTryOpenTiff ==
    /\ cursor = Idle
    /\ cursor' = try_open_tiff(file)
    /\ UNCHANGED <<file, layout, pc, endianness, bigtiff, next_ifd_offset, ifd_reader,
                   tag_idx, tags, ifds, visited, fetch_log, outcome, entry, parsed>>
    /\ UNCHANGED chunkVars

NextOpen == TryOpen \/ CursorTryOpenTiff

SpecOpen == InitOpen /\ [][NextOpen]_vars

----------------------------------------------------------------------------
(* Claims about the IFD walk, checked under Spec *)

\* The chain of a layout: the IFDs met from the first one on, at most k of them.
RECURSIVE Chain(_, _, _)
Chain(l, i, k) == IF i = 0 \/ k = 0 THEN <<>> ELSE <<i>> \o Chain(l, l.next[i], k - 1)
ChainOf(l) == Chain(l, l.first, l.n + 1)
EndsInZero(l) == Len(ChainOf(l)) <= l.n

\* C1: no IFD offset is parsed more than once in a walk.
C1_CycleGuard ==
    \A i \in 1..Len(visited) : \A j \in 1..Len(visited) : i # j => visited[i] # visited[j]

\* C2: on a file whose chain of k IFDs ends in a stored 0, read_all_ifds
\* returns exactly the k IFDs in chain order, each opened only once the IFD
\* before it is finished; it never fails and never opens more than k IFDs; the
\* stored 0 becomes None, so next_ifd_offset is None after the last IFD.
C2_ChainToZero ==
    (layout.kind # "Missing" /\ EndsInZero(layout)) =>
        LET chain == ChainOf(layout)
            k == Len(chain)
        IN /\ Len(visited) <= k
           /\ \A i \in 1..Len(visited) : visited[i] = IfdOffset(layout, chain[i])
           /\ Len(ifds) <= Len(visited)
           /\ Len(ifds) >= Len(visited) - 1
           /\ \A i \in 1..Len(ifds) :
                 ifds[i].image_width = [kind |-> "Unsigned", val |-> <<Digits(chain[i], 4)>>]
           /\ pc \notin {"failed", "panicked"}
           /\ (pc = "walk" /\ Len(ifds) < k) => next_ifd_offset # None
           /\ (pc = "walk" /\ Len(ifds) = k) => next_ifd_offset = None
           /\ pc = "done" => (Len(ifds) = k /\ next_ifd_offset = None)

C2_Witness ==
    /\ pc = "done" /\ Len(ifds) = 2 /\ layout.first = 2
    /\ layout.kind = "OutOfLine" /\ next_ifd_offset = None

\* The span of the IFD being read, or last read.
SpanStart == visited[Len(visited)]
SpanEnd == SpanStart + SpanLen(Len(IfdEntries(layout.kind, 1)), layout.bigtiff)
InSpan(r) == SpanStart <= r.start /\ r.end <= SpanEnd

\* C6: every byte range fetched while reading one IFD lies inside
\* [ifd_start, ifd_start + tag_count_width + tag_count x entry_width +
\* next_offset_width).
C6_ReadSpan ==
    visited # <<>> => \A i \in 1..Len(fetch_log) : InSpan(fetch_log[i])

\* C6, amended: every byte range fetched while reading one IFD lies inside
\* that span, except the reads of out-of-line values, which are made at the
\* offset the entry stores (here: behind the span, inside the IFD's block).
C6_ReadSpanButOutOfLine ==
    visited # <<>> =>
        \A i \in 1..Len(fetch_log) :
            IF fetch_log[i].indirect
            THEN /\ SpanEnd <= fetch_log[i].start
                 /\ fetch_log[i].end <= SpanStart + BlockLen(layout)
            ELSE InSpan(fetch_log[i])

C6_Witness ==
    /\ pc = "walk" /\ Len(ifds) = 1 /\ layout.kind = "OutOfLine"
    /\ \E i \in 1..Len(fetch_log) : fetch_log[i].indirect
    /\ fetch_log[Len(fetch_log)].end = SpanEnd

----------------------------------------------------------------------------
(* Claims about opening, checked under SpecOpen *)

GoodMagic == SubSeq(file, 1, 2) \in {<<73, 73>>, <<77, 77>>}
FileOrder == IF SubSeq(file, 1, 2) = <<73, 73>> THEN LittleEndian ELSE BigEndian
\* The u16 stored at byte offset at, and the digits stored in [from, to).
StoredU16(at) ==
    IF FileOrder = LittleEndian THEN file[at + 1] + 256 * file[at + 2]
    ELSE 256 * file[at + 1] + file[at + 2]
StoredDigits(from, to) ==
    IF FileOrder = LittleEndian THEN [i \in 1..(to - from) |-> file[to + 1 - i]]
    ELSE [i \in 1..(to - from) |-> file[from + i]]
HeaderOnly(len) ==
    \A i \in 1..Len(outcome.fetches) :
        outcome.fetches[i].end <= len /\ ~outcome.fetches[i].indirect

C4_MalformedHeader ==
    /\ (pc # "start"
          /\ (~GoodMagic \/ (StoredU16(2) = 43 /\ ~(StoredU16(4) = 8 /\ StoredU16(6) = 0))))
       => (outcome.kind = "Err"
             /\ outcome.err \in {TiffSignatureInvalid, TiffSignatureNotFound})
    /\ (cursor # Idle /\ ~GoodMagic)
       => (cursor.kind = "Err" /\ cursor.err \in {TiffSignatureInvalid, TiffSignatureNotFound})

----------------------------------------------------------------------------
(* Claims about the tag codec, checked under SpecTag *)

Ran(v) == parsed[v].res.kind # "NotRun"
EntryBytesLen == entry.count * tag_size(entry.type)
InEntry(r, big) ==
    /\ ~r.indirect
    /\ entry.at <= r.start
    /\ r.end <= entry.at + (IF big THEN 20 ELSE 12)

\* C5: when Count x sizeof(Type) is at most 4 (classic) or 8 (BigTIFF), every
\* byte range fetched by read_tag lies inside the 12- or 20-byte entry.
C5_OffsetInField ==
    \A v \in Variants :
        (Ran(v) /\ EntryBytesLen <= (IF v[2] THEN 8 ELSE 4))
        => \A i \in 1..Len(parsed[v].res.fetches) : InEntry(parsed[v].res.fetches[i], v[2])

C5_Witness ==
    /\ entry.at = 3 /\ entry.type = SHORT /\ entry.count = 4
    /\ parsed[<<BigEndian, TRUE>>].res.kind = "Ok"
    /\ Len(parsed[<<BigEndian, TRUE>>].res.fetches) = 4

\* C7: the entry written little-endian and read as LittleEndian and the same
\* entry written big-endian and read as BigEndian give the same tag and the
\* same result, in the classic and in the BigTIFF layout.
C7_EndianEquivalence ==
    \A big \in BOOLEAN :
        (Ran(<<LittleEndian, big>>) /\ Ran(<<BigEndian, big>>))
        => /\ parsed[<<LittleEndian, big>>].tag = parsed[<<BigEndian, big>>].tag
           /\ parsed[<<LittleEndian, big>>].tag = entry.tag
           /\ parsed[<<LittleEndian, big>>].res.kind = parsed[<<BigEndian, big>>].res.kind
           /\ parsed[<<LittleEndian, big>>].res.value = parsed[<<BigEndian, big>>].res.value

C7_Witness ==
    /\ entry.type = LONG /\ entry.count = 3 /\ entry.tag = 258
    /\ entry.elems[1] # entry.elems[2]
    /\ parsed[<<LittleEndian, FALSE>>].res.kind = "Ok"
    /\ parsed[<<BigEndian, FALSE>>].res.kind = "Ok"
    /\ parsed[<<LittleEndian, TRUE>>].res.kind = "Ok"
    /\ parsed[<<BigEndian, TRUE>>].res.kind = "Ok"

\* C8: the same logical entry in a 12-byte classic entry and in a 20-byte
\* BigTIFF entry parses to an identical Value.
C8_ClassicBigEquivalence ==
    \A e \in Endiannesses :
        (Ran(<<e, FALSE>>) /\ Ran(<<e, TRUE>>))
        => /\ parsed[<<e, FALSE>>].res.kind = parsed[<<e, TRUE>>].res.kind
           /\ parsed[<<e, FALSE>>].res.value = parsed[<<e, TRUE>>].res.value

\* The Value variant of a type, as the expected values of the tests name it.
ExpectedVariant(t) ==
    CASE t = BYTE -> "Byte" [] t = UNDEFINED -> "Byte" [] t = SBYTE -> "SignedByte"
      [] t = ASCII -> "Ascii" [] t = SHORT -> "Short" [] t = SSHORT -> "SignedShort"
      [] t = LONG -> "Unsigned" [] t = SLONG -> "Signed" [] t = IFD -> "Ifd"
      [] t = FLOAT -> "Float" [] t = DOUBLE -> "Double"
      [] t = LONG8 -> "UnsignedBig" [] t = SLONG8 -> "SignedBig" [] t = IFD8 -> "IfdBig"
      [] t = RATIONAL -> "Rational" [] t = SRATIONAL -> "SRational"

\* C9: Count = 0 gives List([]) and the value field is not read; Count = 1
\* gives the scalar variant of the Type, never a List; Count > 1 of a type
\* other than ASCII gives a List of Count elements of that variant, in file
\* order.
C9_ValueShape ==
    \A v \in Variants :
        Ran(v) =>
          LET r == parsed[v].res
              fieldAt == entry.at + 4 + (IF v[2] THEN 8 ELSE 4)
          IN /\ entry.count = 0 =>
                   /\ r.kind = "Ok" /\ r.value = [kind |-> "List", val |-> <<>>]
                   /\ \A i \in 1..Len(r.fetches) : r.fetches[i].end <= fieldAt
             /\ (entry.count = 1 /\ r.kind = "Ok") =>
                   /\ r.value.kind = ExpectedVariant(entry.type)
                   /\ r.value.kind # "List"
             /\ (entry.count = 1 /\ entry.type # ASCII) =>
                   /\ r.kind = "Ok"
                   /\ r.value = [kind |-> ExpectedVariant(entry.type), val |-> entry.elems[1]]
             /\ (entry.count > 1 /\ entry.type # ASCII) =>
                   /\ r.kind = "Ok" /\ r.value.kind = "List"
                   /\ Len(r.value.val) = entry.count
                   /\ \A i \in 1..entry.count :
                         r.value.val[i] =
                            [kind |-> ExpectedVariant(entry.type), val |-> entry.elems[i]]

C9_Witness ==
    /\ entry.type = SRATIONAL /\ entry.count = 2
    /\ entry.elems[1] # entry.elems[2]
    /\ parsed[<<LittleEndian, FALSE>>].res.kind = "Ok"
    /\ parsed[<<LittleEndian, FALSE>>].res.value.kind = "List"
    /\ parsed[<<BigEndian, TRUE>>].res.kind = "Ok"

\* The bytes of the string the entry holds, and those before its first NUL.
EntryString == [i \in 1..entry.count |-> entry.elems[i][1][1]]
BeforeFirstNul(s) ==
    IF \E i \in 1..Len(s) : s[i] = 0
    THEN SubSeq(s, 1, (CHOOSE i \in 1..Len(s) : s[i] = 0 /\ \A j \in 1..(i - 1) : s[j] # 0) - 1)
    ELSE s

\* C10: every ASCII entry, whatever its Count, layout and storage, gives one
\* Ascii string equal to the bytes before the first NUL; an entry holding a
\* non-ASCII byte gives an error result, not a string and not an abort.
C10_AsciiUniform ==
    \A v \in Variants :
        (Ran(v) /\ entry.type = ASCII /\ entry.count >= 1) =>
          LET r == parsed[v].res
          IN IF \A i \in 1..entry.count : EntryString[i] < 128
             THEN r.kind = "Ok"
                  /\ r.value = [kind |-> "Ascii", val |-> <<BeforeFirstNul(EntryString)>>]
             ELSE r.kind = "Err"

----------------------------------------------------------------------------
(* Chunks of an ImageFileDirectory: ifd.rs, get_tile_byte_range, fetch_tile *)
(* and fetch_tiles                                                          *)

\* number of pixels across the widest image
MaxDim == 3
\* chunk coordinates asked for run over 0..MaxCoord
MaxCoord == 1
\* number of chunks asked for by one fetch_tiles call
MaxBatch == 2

\* (a as f64 / b as f64).ceil() as usize, for b > 0
CeilDiv(a, b) == (a + b - 1) \div b

\* ImageFileDirectory::tile_count: None if this is not a tiled TIFF.
tile_count(i) ==
    IF i.tile_width = None \/ i.tile_height = None THEN None
    ELSE Some(<<CeilDiv(into_u32(i.image_width), i.tile_width[1]),
                CeilDiv(into_u32(i.image_height), i.tile_height[1])>>)

\* ImageFileDirectory::get_tile_byte_range: `?` on the three options, then two
\* slice indexings, each of which aborts when idx is past the end of its table.
MutTileIndex(x, y, across) == x * across + y
TileIndex(x, y, across) == y * across + x
get_tile_byte_range(i, x, y) ==
    IF i.tile_offsets = None \/ i.tile_byte_counts = None \/ tile_count(i) = None
    THEN [kind |-> "None", range |-> <<>>]
    ELSE IF \E idx \in {TileIndex(x, y, tile_count(i)[1][1])} :
               idx >= Len(i.tile_offsets[1]) \/ idx >= Len(i.tile_byte_counts[1])
         THEN [kind |-> "Panic", range |-> <<>>]
    ELSE [kind |-> "Some",
          range |-> CHOOSE r \in {<<i.tile_offsets[1][idx + 1],
                                    i.tile_offsets[1][idx + 1] + i.tile_byte_counts[1][idx + 1]>> :
                                      idx \in {TileIndex(x, y, tile_count(i)[1][1])}} : TRUE]

\* The image source: the bytes of a range (byte p of the image file is p mod 251).
ImageBytes(range) == [k \in 1..(range[2] - range[1]) |-> (range[1] + k - 1) % 251]
\* One call on the reader: get_bytes(range) or get_byte_ranges(ranges).
Call(name, ranges) == [call |-> name, ranges |-> ranges]

\* `Tile { x, y, compressed_bytes, compression_method, photometric_interpretation,
\* jpeg_tables }`
Tile(i, x, y, bytes) ==
    [x |-> x, y |-> y, compressed_bytes |-> bytes, compression_method |-> i.compression,
     photometric_interpretation |-> i.photometric_interpretation,
     jpeg_tables |-> i.jpeg_tables]

IndexOutOfBounds == "index out of bounds"
\* ImageFileDirectory::fetch_tile
fetch_tile(i, x, y) ==
    CHOOSE res \in
        {IF r.kind = "Panic" THEN PanicR(IndexOutOfBounds, <<>>)
         ELSE IF r.kind = "None" THEN ErrR(General, <<>>)
         ELSE OkR(Tile(i, x, y, ImageBytes(r.range)), <<Call("get_bytes", <<r.range>>)>>) :
            r \in {get_tile_byte_range(i, x, y)}} : TRUE

\* ImageFileDirectory::fetch_tiles: the ranges are collected in input order up
\* to the first coordinate without one; one get_byte_ranges call; the tiles are
\* the zip of the buffers with x and y.
MutBatchOrder(n, k) == n + 1 - k
BatchOrder(n, k) == k
FirstWithout(rs) ==
    IF \A k \in 1..Len(rs) : rs[k].kind = "Some" THEN 0
    ELSE CHOOSE k \in 1..Len(rs) : rs[k].kind # "Some" /\ \A j \in 1..(k - 1) : rs[j].kind = "Some"
\* AsyncFileReader::get_byte_ranges: one buffer per range, in the order given.
get_byte_ranges(ranges) == [k \in 1..Len(ranges) |-> ImageBytes(ranges[k])]
TilesOf(i, xs, ys, ranges) ==
    OkR([k \in 1..Len(ranges) |-> Tile(i, xs[k], ys[k], get_byte_ranges(ranges)[k])],
        <<Call("get_byte_ranges", ranges)>>)
CollectRanges(i, xs, ys, rs) ==
    IF FirstWithout(rs) # 0
    THEN IF rs[FirstWithout(rs)].kind = "Panic" THEN PanicR(IndexOutOfBounds, <<>>)
         ELSE ErrR(General, <<>>)
    ELSE TilesOf(i, xs, ys, [k \in 1..Len(rs) |-> rs[BatchOrder(Len(rs), k)].range])
fetch_tiles(i, xs, ys) ==
    IF Len(xs) # Len(ys) THEN PanicR("x and y should have same len", <<>>)
    ELSE CHOOSE res \in
            {CollectRanges(i, xs, ys, rs) :
                rs \in {[k \in 1..Len(xs) |-> get_tile_byte_range(i, xs[k], ys[k])]}} : TRUE

\* Tag maps as read_tag leaves them: a LONG or SHORT scalar, or a list of them
\* (a table of one element is a scalar).
U32(n) == Val("Unsigned", <<Digits(n, 4)>>)
U16(n) == Val("Short", <<Digits(n, 2)>>)
Table(n) == IF n = 1 THEN U32(10) ELSE List([k \in 1..n |-> U32(10 * k)])
Counts(n) == IF n = 1 THEN U32(1) ELSE List([k \in 1..n |-> U32(k)])
Opt(c, tag, value) == IF c THEN <<[tag |-> tag, value |-> value]>> ELSE <<>>
Shapes ==
    {"Tiled", "Stripped", "Neither", "Both", "ShortOffsets", "ShortCounts", "NoCounts",
     "NoDims", "StripOffsetsOnly"}
\* The tiles are 2 x 2 pixels and a strip is one row.
TilesNeeded(w, h) == CeilDiv(w, 2) * CeilDiv(h, 2)
TagMap(shape, w, h, absent) ==
    Opt(256 \notin absent, 256, U32(w))
    \o Opt(257 \notin absent, 257, U32(h))
    \o Opt(258 \notin absent, 258, U16(8))
    \o Opt(shape \in {"Tiled", "Both"}, 259, U16(5))
    \o Opt(262 \notin absent, 262, U16(1))
    \o Opt(shape \in {"Stripped", "Both", "StripOffsetsOnly"}, 273, Table(h))
    \o Opt(277 \notin absent, 277, U16(1))
    \o Opt(shape \in {"Stripped", "Both"}, 278, U32(1))
    \o Opt(shape \in {"Stripped", "Both"}, 279, Counts(h))
    \o Opt(shape \notin {"Stripped", "Neither", "NoDims", "StripOffsetsOnly"}, 322, U32(2))
    \o Opt(shape \notin {"Stripped", "Neither", "NoDims", "StripOffsetsOnly"}, 323, U32(2))
    \o Opt(shape \notin {"Stripped", "Neither", "StripOffsetsOnly"}, 324,
           Table(TilesNeeded(w, h) - (IF shape = "ShortOffsets" THEN 1 ELSE 0)))
    \o Opt(shape \notin {"Stripped", "Neither", "StripOffsetsOnly", "NoCounts"}, 325,
           Counts(TilesNeeded(w, h) - (IF shape = "ShortCounts" THEN 1 ELSE 0)))
TagMaps ==
    {TagMap(shape, w, h, {}) : shape \in Shapes, w \in 1..MaxDim, h \in {1, MaxDim}}
    \cup {TagMap("Tiled", MaxDim, MaxDim, absent) : absent \in SUBSET {256, 257, 258, 262, 277}}

\* Coordinate lists of a fetch_tiles call; a ragged call has one y less.
RECURSIVE SeqsUpTo(_, _)
SeqsUpTo(S, n) ==
    IF n = 0 THEN {<<>>}
    ELSE SeqsUpTo(S, n - 1) \cup {Append(q, v) : q \in SeqsUpTo(S, n - 1), v \in S}
Coords == 0..MaxCoord

InitIfd ==
    /\ tags \in TagMaps
    /\ pc = "tags" /\ ifd = Idle /\ request = Idle /\ outcome = NotRun /\ fetch_log = <<>>
    /\ file = <<>> /\ layout = Idle
    /\ endianness = LittleEndian /\ bigtiff = FALSE /\ next_ifd_offset = None
    /\ ifd_reader = Idle /\ tag_idx = 0 /\ ifds = <<>> /\ visited = <<>> /\ cursor = Idle
    /\ entry = Idle /\ parsed = Idle /\ prefetch = Idle /\ predictor_info = Idle

\* ImageFileDirectory::from_tags(tag_data, next_ifd_offset)
FromTags ==
    /\ pc = "tags"
    /\ ifd' = from_tags(tags)
    /\ pc' = "ifd"
    /\ UNCHANGED <<file, tags, fetch_log, outcome, request, prefetch, predictor_info>>
    /\ UNCHANGED readerVars

\* ifd.fetch_tile(x, y, &reader).await
FetchTile(x, y) ==
    /\ pc = "ifd" /\ ifd.kind = "Ok"
    /\ \E res \in {fetch_tile(ifd.ifd, x, y)} :
          outcome' = res /\ fetch_log' = res.fetches
    /\ request' = [op |-> "fetch_tile", x |-> <<x>>, y |-> <<y>>]
    /\ pc' = "fetched"
    /\ UNCHANGED <<file, tags, ifd, prefetch, predictor_info>>
    /\ UNCHANGED readerVars

\* ifd.fetch_tiles(&x, &y, &reader).await
FetchTiles(xs, ys) ==
    /\ pc = "ifd" /\ ifd.kind = "Ok"
    /\ \E res \in {fetch_tiles(ifd.ifd, xs, ys)} :
          outcome' = res /\ fetch_log' = res.fetches
    /\ request' = [op |-> "fetch_tiles", x |-> xs, y |-> ys]
    /\ pc' = "fetched"
    /\ UNCHANGED <<file, tags, ifd, prefetch, predictor_info>>
    /\ UNCHANGED readerVars

\* The caller drops the result and is ready for its next call on the IFD.
DropTiles ==
    /\ pc = "fetched"
    /\ pc' = "ifd" /\ request' = Idle /\ outcome' = NotRun /\ fetch_log' = <<>>
    /\ UNCHANGED <<file, tags, ifd, prefetch, predictor_info>>
    /\ UNCHANGED readerVars

NextIfd ==
    \/ FromTags
    \/ DropTiles
    \/ \E x \in Coords, y \in Coords : FetchTile(x, y)
    \/ \E xs \in SeqsUpTo(Coords, MaxBatch), ys \in SeqsUpTo(Coords, MaxBatch) :
          /\ Len(ys) \in {Len(xs), Len(xs) - 1}
          /\ FetchTiles(xs, ys)

SpecIfd == InitIfd /\ [][NextIfd]_vars

----------------------------------------------------------------------------
(* Claims about the construction of an IFD and its chunks (SpecIfd) *)

RequiredTagNotFound == "FormatError(RequiredTagNotFound)"
TileIndexError == "TileIndexError"
TagsPresent == {tags[k].tag : k \in 1..Len(tags)}

\* C11: constructing an ImageFileDirectory from a tag map that lacks ImageWidth,
\* ImageLength, BitsPerSample, PhotometricInterpretation or SamplesPerPixel
\* returns the error FormatError(RequiredTagNotFound): no abort, no IFD.
C11_RequiredTags ==
    (pc # "tags" /\ ifd # Idle /\ ~({256, 257, 258, 262, 277} \subseteq TagsPresent))
        => (ifd.kind = "Err" /\ ifd.err = RequiredTagNotFound /\ ifd.ifd = Idle)

Populated(offsets, counts) == offsets # None /\ counts # None
\* C12: every successfully constructed ImageFileDirectory has exactly one of
\* the pairs (strip_offsets, strip_byte_counts) and (tile_offsets,
\* tile_byte_counts) populated, the two lists of that pair of equal length.
C12_ChunkTables ==
    (pc # "tags" /\ ifd # Idle /\ ifd.kind = "Ok") =>
        LET i == ifd.ifd
            strips == Populated(i.strip_offsets, i.strip_byte_counts)
            tiles == Populated(i.tile_offsets, i.tile_byte_counts)
        IN /\ strips # tiles
           /\ strips => Len(i.strip_offsets[1]) = Len(i.strip_byte_counts[1])
           /\ tiles => Len(i.tile_offsets[1]) = Len(i.tile_byte_counts[1])

\* The tile grid and the chunk tables as the tag map states them.
Tiled == {322, 323, 324, 325} \subseteq TagsPresent
WidthOf == into_u32(ValueOfTag(tags, 256))
HeightOf == into_u32(ValueOfTag(tags, 257))
TilesAcross == CeilDiv(WidthOf, into_u32(ValueOfTag(tags, 322)))
TilesDown == CeilDiv(HeightOf, into_u32(ValueOfTag(tags, 323)))
TileOffsets == into_u64_vec(ValueOfTag(tags, 324))
TileByteCounts == into_u64_vec(ValueOfTag(tags, 325))
InGrid(x, y) == x < TilesAcross /\ y < TilesDown
InTables(x, y) ==
    y * TilesAcross + x < Len(TileOffsets) /\ y * TilesAcross + x < Len(TileByteCounts)
RangeOfTile(x, y) ==
    <<TileOffsets[y * TilesAcross + x + 1],
      TileOffsets[y * TilesAcross + x + 1] + TileByteCounts[y * TilesAcross + x + 1]>>
Fetched(op) == pc = "fetched" /\ request.op = op

\* C13: on a tiled IFD, fetch_tile(x, y) for a chunk of the grid issues exactly
\* one image fetch, for [tile_offsets[idx], tile_offsets[idx] +
\* tile_byte_counts[idx]) with idx = y * tiles_across + x, whose length is
\* tile_byte_counts[idx], and returns the tile (x, y) holding those bytes.
C13_TileByteRange ==
    (Fetched("fetch_tile") /\ Tiled /\ InGrid(request.x[1], request.y[1])
       /\ InTables(request.x[1], request.y[1])) =>
        LET x == request.x[1]
            y == request.y[1]
        IN /\ outcome.kind = "Ok"
           /\ fetch_log = <<Call("get_bytes", <<RangeOfTile(x, y)>>)>>
           /\ RangeOfTile(x, y)[2] - RangeOfTile(x, y)[1] = TileByteCounts[y * TilesAcross + x + 1]
           /\ outcome.value.x = x /\ outcome.value.y = y
           /\ outcome.value.compressed_bytes = ImageBytes(RangeOfTile(x, y))
C13_Witness ==
    /\ Fetched("fetch_tile") /\ Tiled /\ TilesAcross = 2 /\ TilesDown = 2
    /\ request.x = <<1>> /\ request.y = <<0>>
    /\ outcome.kind = "Ok" /\ fetch_log = <<Call("get_bytes", <<<<20, 22>>>>)>>

\* C14: fetch_tile and fetch_tiles with a coordinate x >= tiles_across or
\* y >= tiles_down return TileIndexError: no bytes of another tile, no fetch,
\* no abort.
C14_OutOfRange ==
    (pc = "fetched" /\ Tiled /\ Len(request.x) = Len(request.y)
       /\ \E k \in 1..Len(request.x) : ~InGrid(request.x[k], request.y[k])) =>
        (outcome.kind = "Err" /\ outcome.err = TileIndexError /\ fetch_log = <<>>)

\* C15: on an IFD with strip_offsets and strip_byte_counts and no tile tags,
\* fetch_tile(0, y) succeeds and fetches [strip_offsets[y], strip_offsets[y] +
\* strip_byte_counts[y]).
C15_StripsAsTiles ==
    (Fetched("fetch_tile") /\ {273, 279} \subseteq TagsPresent
       /\ TagsPresent \cap {322, 323, 324, 325} = {}
       /\ request.x = <<0>> /\ request.y[1] < Len(into_u64_vec(ValueOfTag(tags, 273)))) =>
        LET offsets == into_u64_vec(ValueOfTag(tags, 273))
            counts == into_u64_vec(ValueOfTag(tags, 279))
            y == request.y[1]
        IN /\ outcome.kind = "Ok"
           /\ fetch_log = <<Call("get_bytes", <<<<offsets[y + 1], offsets[y + 1] + counts[y + 1]>>>>)>>

\* C16: fetch_tiles(xs, ys) with len(xs) = len(ys) = n issues exactly one batched
\* fetch whose ranges are those of (xs[i], ys[i]) in input order and returns n
\* Tiles, Tile i with x = xs[i], y = ys[i], the i-th blob and the IFD's
\* compression, photometric interpretation and jpeg_tables; if a coordinate has
\* no byte range, no fetch is issued at all.
HasRange(x, y) == Tiled /\ InTables(x, y)
----------------------------------------------------------------------------
(* The prefetching sources: metadata/fetch.rs PrefetchBuffer and reader.rs  *)
(* PrefetchReader over an inner source                                      *)

\* length of the longest file behind a prefetching source
MaxFile == 4
\* the longest prefetch asked for
MaxPrefetch == 3

\* The inner source on [start, end): one that serves a range only in full
\* (Err(EndOfFile) otherwise, TokioReader::make_range_request) and one that
\* returns what the file has of it (an HTTP range request, ReqwestReader).
EndOfFile == "EndOfFile"
InnerFetch(inner, f, start, end) ==
    IF inner = "exact" THEN Fetch(f, start, end)
    ELSE [ok |-> TRUE, bytes |-> SubSeq(f, start + 1, IF end < Len(f) THEN end ELSE Len(f))]

\* Bytes::slice(start..end): aborts when the range is not inside the buffer.
Slice(b, start, end, log) ==
    IF start <= end /\ end <= Len(b) THEN OkR(SubSeq(b, start + 1, end), log)
    ELSE PanicR("range out of bounds", log)

\* PrefetchBuffer::new / PrefetchReader::new: `fetch(0..prefetch).await?`
PrefetchNew(kind, inner, f, n) ==
    [kind |-> kind, inner |-> inner, n |-> n,
     ok |-> InnerFetch(inner, f, 0, n).ok,
     buffer |-> InnerFetch(inner, f, 0, n).bytes,
     tile_info_cache |-> [start |-> 0, end |-> 0, bytes |-> <<>>]]

\* PrefetchBuffer::fetch: the result, and the cache after the call.
InBuffer(end, len) == end < len
Delegate(inner, f, start, end) ==
    IF InnerFetch(inner, f, start, end).ok
    THEN OkR(InnerFetch(inner, f, start, end).bytes, <<<<start, end>>>>)
    ELSE ErrR(EndOfFile, <<<<start, end>>>>)
BufferFetch(p, f, start, end) ==
    [res |-> IF start < Len(p.buffer) /\ InBuffer(end, Len(p.buffer))
             THEN Slice(p.buffer, start, end, <<>>)
             ELSE Delegate(p.inner, f, start, end),
     cache |-> p.tile_info_cache]

\* u64::isqrt
isqrt(n) == CHOOSE r \in 0..n : r * r <= n /\ (r + 1) * (r + 1) > n
\* PrefetchReader::get_metadata_bytes: buffer, then tile_info_cache, then an
\* over-read of `2 * (range_len + range_len.isqrt())` bytes that replaces the cache.
Estimate(start, end) == 2 * ((end - start) + isqrt(end - start))
OverRead(p, f, start, end, got) ==
    IF ~got.ok
    THEN [res |-> ErrR(EndOfFile, <<<<start, start + Estimate(start, end)>>>>),
          cache |-> p.tile_info_cache]
    ELSE [res |-> Slice(got.bytes, 0, end - start, <<<<start, start + Estimate(start, end)>>>>),
          cache |-> [start |-> start, end |-> start + Estimate(start, end), bytes |-> got.bytes]]
ReaderFetch(p, f, start, end) ==
    IF InBuffer(end, Len(p.buffer))
    THEN [res |-> Slice(p.buffer, start, end, <<>>), cache |-> p.tile_info_cache]
    ELSE IF start >= p.tile_info_cache.start /\ end <= p.tile_info_cache.end
         THEN [res |-> Slice(p.tile_info_cache.bytes, start - p.tile_info_cache.start,
                             end - p.tile_info_cache.start, <<>>),
               cache |-> p.tile_info_cache]
    ELSE CHOOSE r \in {OverRead(p, f, start, end, got) :
                          got \in {InnerFetch(p.inner, f, start, start + Estimate(start, end))}} : TRUE

InitPrefetch ==
    /\ file \in {[q \in 1..n |-> q] : n \in 0..MaxFile}
    /\ pc = "start" /\ prefetch = Idle /\ request = Idle /\ outcome = NotRun /\ fetch_log = <<>>
    /\ tags = <<>> /\ ifd = Idle /\ predictor_info = Idle /\ layout = Idle
    /\ endianness = LittleEndian /\ bigtiff = FALSE /\ next_ifd_offset = None
    /\ ifd_reader = Idle /\ tag_idx = 0 /\ ifds = <<>> /\ visited = <<>> /\ cursor = Idle
    /\ entry = Idle /\ parsed = Idle

\* PrefetchBuffer::new(fetch, prefetch).await? / PrefetchReader::new(reader, prefetch).await?
NewPrefetch(kind, inner, n) ==
    /\ pc = "start"
    /\ \E p \in {PrefetchNew(kind, inner, file, n)} :
          /\ prefetch' = p
          /\ pc' = IF p.ok THEN "ready" ELSE "failed"
    /\ fetch_log' = <<<<0, n>>>>
    /\ UNCHANGED <<file, tags, ifd, request, outcome, predictor_info>>
    /\ UNCHANGED readerVars

\* prefetch.fetch(start..end).await / prefetch.get_metadata_bytes(start..end).await
MetadataFetch(start, end) ==
    /\ pc = "ready"
    /\ \E r \in {IF prefetch.kind = "PrefetchBuffer" THEN BufferFetch(prefetch, file, start, end)
                  ELSE ReaderFetch(prefetch, file, start, end)} :
          /\ outcome' = r.res /\ fetch_log' = r.res.fetches
          /\ prefetch' = [prefetch EXCEPT !.tile_info_cache = r.cache]
    /\ request' = [op |-> "fetch", start |-> start, end |-> end]
    /\ UNCHANGED <<file, tags, ifd, pc, predictor_info>>
    /\ UNCHANGED readerVars

NextPrefetch ==
    \/ \E kind \in {"PrefetchBuffer", "PrefetchReader"}, inner \in {"exact", "truncating"},
          n \in 0..MaxPrefetch : NewPrefetch(kind, inner, n)
    \/ \E start \in 0..MaxFile, end \in 0..MaxFile : start <= end /\ MetadataFetch(start, end)

SpecPrefetch == InitPrefetch /\ [][NextPrefetch]_vars

----------------------------------------------------------------------------
(* Claims about the prefetching sources (SpecPrefetch) *)

Asked == pc = "ready" /\ request # Idle

\* C17: after construction with prefetch length N, a metadata fetch with
\* range.end <= N (a range ending exactly at N included) is answered from the
\* prefetched buffer with no call to the inner source, and every fetch that
\* escapes the buffer is delegated to the inner source.
C17_PrefetchRouting ==
    (Asked /\ Len(prefetch.buffer) = prefetch.n) =>
        IF request.end <= prefetch.n
        THEN /\ fetch_log = <<>>
             /\ outcome = OkR(SubSeq(prefetch.buffer, request.start + 1, request.end), <<>>)
        ELSE fetch_log = <<<<request.start, request.end>>>>

\* C18: every metadata fetch of a range of the file through a PrefetchBuffer
\* or a PrefetchReader succeeds with exactly the file's bytes at the range,
\* whatever the file length, the prefetch length and the fetches before it.
C18_PrefetchTransparency ==
    (Asked /\ request.end <= Len(file)) =>
        outcome = OkR(SubSeq(file, request.start + 1, request.end), fetch_log)

----------------------------------------------------------------------------
(* The reverse predictors: predictor.rs                                     *)

\* the largest samples_per_pixel of a PredictorInfo
MaxSamples == 2
\* the largest number of rows of a chunk
MaxRows == 2

Chunky == "Chunky"
Planar == "Planar"

chunks_across(info) == CeilDiv(info.image_width, info.chunk_width)

MutChunk_width_pixels(info, x) ==
    [ok |-> x < chunks_across(info), value |-> info.chunk_width]

\* [ok, value]: the width in pixels of the chunks of column x
chunk_width_pixels(info, x) ==
    IF x >= chunks_across(info)
    THEN [ok |-> FALSE, value |-> 0]
    ELSE IF x = chunks_across(info) - 1
         THEN [ok |-> TRUE, value |-> info.image_width - info.chunk_width * x]
         ELSE [ok |-> TRUE, value |-> info.chunk_width]

bits_per_pixel(info) ==
    IF info.planar_configuration = Chunky
    THEN info.bits_per_sample * info.samples_per_pixel
    ELSE info.bits_per_sample

output_row_stride(info, x) == (chunk_width_pixels(info, x).value * bits_per_pixel(info)) \div 8

\* slice::chunks_mut(n): consecutive pieces of n bytes, the last one shorter
Chunks(b, n) ==
    [k \in 1..CeilDiv(Len(b), n) |->
        SubSeq(b, (k - 1) * n + 1, IF k * n < Len(b) THEN k * n ELSE Len(b))]

\* the buffer in the byte order of the host: every whole element of the bit
\* depth is reversed when the file's order is not the host's
fix_endianness(buffer, byte_order, bit_depth, host) ==
    LET size == IF bit_depth <= 8 THEN 1 ELSE IF bit_depth <= 16 THEN 2
                ELSE IF bit_depth <= 32 THEN 4 ELSE 8
        whole == (Len(buffer) \div size) * size
    IN IF byte_order = host
       THEN buffer
       ELSE [p \in 1..Len(buffer) |->
                IF p <= whole
                THEN buffer[((p - 1) \div size) * size + size - ((p - 1) % size)]
                ELSE buffer[p]]

\* uN::wrapping_add on the digits (most significant first) of two elements
wrapping_add(a, b) ==
    LET w == Len(a)
        carry[k \in 0..w] ==
            IF k = 0 THEN 0 ELSE (a[w + 1 - k] + b[w + 1 - k] + carry[k - 1]) \div 256
    IN [j \in 1..w |-> (a[j] + b[j] + carry[w - j]) % 256]

MutPrevious(i, samples) == i - 1
\* the element that element i is a difference to
Previous(i, samples) == i - samples

\* [kind, buf]: one row after the in-place loop over its elements
rev_hpredict_nsamp(buf, bit_depth, samples, host) ==
    LET size == IF bit_depth <= 8 THEN 1 ELSE IF bit_depth <= 16 THEN 2
                ELSE IF bit_depth <= 32 THEN 4 ELSE IF bit_depth <= 64 THEN 8 ELSE 0
    IN IF size = 0
       THEN [kind |-> "Panic", buf |-> buf]
       ELSE LET el == Chunks(buf, size)
                out[i \in 1..Len(el)] ==
                    IF i <= samples
                    THEN el[i]
                    ELSE Store(wrapping_add(EndianRead(el[i], host),
                                            EndianRead(out[Previous(i, samples)], host)), host)
            IN IF Len(buf) % size # 0 /\ Len(el) > samples
               THEN [kind |-> "Panic", buf |-> buf]
               ELSE [kind |-> "Ok", buf |-> Flatten([i \in 1..Len(el) |-> out[i]])]

HdiffRows(rows) ==
    IF \E r \in 1..Len(rows) : rows[r].kind = "Panic"
    THEN PanicR("range end index out of range for slice", <<>>)
    ELSE OkR(Flatten([r \in 1..Len(rows) |-> rows[r].buf]), <<>>)

unpredict_hdiff(buffer, info, tile_x, host) ==
    IF ~chunk_width_pixels(info, tile_x).ok
    THEN ErrR(TileIndexError, <<>>)
    ELSE IF output_row_stride(info, tile_x) = 0
    THEN PanicR("chunk size must be non-zero", <<>>)
    ELSE HdiffRows([r \in 1..CeilDiv(Len(buffer), output_row_stride(info, tile_x)) |->
            rev_hpredict_nsamp(
                Chunks(fix_endianness(buffer, info.endianness, info.bits_per_sample, host),
                       output_row_stride(info, tile_x))[r],
                info.bits_per_sample, info.samples_per_pixel, host)])

\* rev_predict_f16 / f32 / f64 with n = 2 / 4 / 8 bytes per value:
\* [kind, buf], the output row
rev_predict_f(input, output, samples, n, host) ==
    LET undiff[p \in 1..Len(input)] ==
            IF p <= samples THEN input[p] ELSE (input[p] + undiff[p - samples]) % 256
        values == Len(output) \div n
        plane == Len(input) \div n
    IN IF values > 0 /\ plane * (n - 1) + values > Len(input)
       THEN [kind |-> "Panic", buf |-> output]
       ELSE [kind |-> "Ok",
             buf |-> [q \in 1..Len(output) |->
                        IF q > values * n
                        THEN output[q]
                        ELSE undiff[plane * (IF host = LittleEndian
                                             THEN n - 1 - ((q - 1) % n)
                                             ELSE (q - 1) % n)
                                    + ((q - 1) \div n) + 1]]]

\* one row of the padded path: the full-width row, then its first stride bytes
PaddedRow(in_buf, out_buf, input_row_stride, stride, samples, n, host) ==
    IF rev_predict_f(in_buf, Zeros(input_row_stride), samples, n, host).kind = "Panic"
       \/ stride > input_row_stride
       \/ Len(out_buf) # stride
    THEN [kind |-> "Panic", buf |-> out_buf]
    ELSE [kind |-> "Ok",
          buf |-> SubSeq(rev_predict_f(in_buf, Zeros(input_row_stride), samples, n, host).buf,
                         1, stride)]

FloatRows(rows, rest) ==
    IF \E r \in 1..Len(rows) : rows[r].kind = "Panic"
    THEN PanicR("index out of bounds", <<>>)
    ELSE OkR(Flatten([r \in 1..Len(rows) |-> rows[r].buf]) \o rest, <<>>)

unpredict_float(in_buffer, out_buffer, info, tile_x, host) ==
    IF ~chunk_width_pixels(info, tile_x).ok
    THEN ErrR(TileIndexError, <<>>)
    ELSE
    LET stride == output_row_stride(info, tile_x)
        padded == chunk_width_pixels(info, tile_x).value # info.chunk_width
        input_row_stride == IF padded
                            THEN (info.chunk_width * info.bits_per_sample) \div 8
                            ELSE stride
    IN IF stride = 0 \/ input_row_stride = 0
       THEN PanicR("chunk size must be non-zero", <<>>)
       ELSE
       LET ins == Chunks(in_buffer, input_row_stride)
           outs == Chunks(out_buffer, stride)
           pairs == IF Len(ins) < Len(outs) THEN Len(ins) ELSE Len(outs)
           n == info.bits_per_sample \div 8
       IN IF pairs > 0 /\ info.bits_per_sample \notin {16, 32, 64}
          THEN ErrR(General, <<>>)
          ELSE FloatRows(
                 [r \in 1..pairs |->
                    IF padded
                    THEN PaddedRow(ins[r], outs[r], input_row_stride, stride,
                                   info.samples_per_pixel, n, host)
                    ELSE rev_predict_f(ins[r], outs[r], info.samples_per_pixel, n, host)],
                 SubSeq(out_buffer, pairs * stride + 1, Len(out_buffer)))

\* the chunks the predictors are run on: one row of chunks, 3 pixels wide,
\* whose right-edge chunk is 2 or 3 pixels wide
PredictorInfos ==
    [endianness : Endiannesses, image_width : {5, 6}, image_height : 1..MaxRows,
     chunk_width : {3}, chunk_height : 1..MaxRows, bits_per_sample : {8, 16, 32, 64},
     samples_per_pixel : 1..MaxSamples, planar_configuration : {Chunky, Planar}]

\* the decoded bytes of a chunk: chunk_height rows of chunk_width pixels
Decoded(info, a, b) ==
    [p \in 1..(info.chunk_height * ((info.chunk_width * bits_per_pixel(info)) \div 8)) |->
        (a * p + b) % 256]

InitPredictor ==
    /\ predictor_info \in {i \in PredictorInfos : i.image_height = i.chunk_height}
    /\ \E ab \in {<<0, 255>>, <<1, 0>>, <<37, 200>>} :
            file = Decoded(predictor_info, ab[1], ab[2])
    /\ pc = "decoded"
    /\ outcome = NotRun
    /\ request = Idle
    /\ fetch_log = <<>>
    /\ tags = <<>> /\ ifd = Idle /\ prefetch = Idle /\ layout = Idle
    /\ endianness = LittleEndian /\ bigtiff = FALSE /\ next_ifd_offset = None
    /\ ifd_reader = Idle /\ tag_idx = 0 /\ ifds = <<>> /\ visited = <<>> /\ cursor = Idle
    /\ entry = Idle /\ parsed = Idle

UnpredictHdiff(x, host) ==
    /\ pc = "decoded"
    /\ outcome' = unpredict_hdiff(file, predictor_info, x, host)
    /\ request' = [op |-> "hdiff", x |-> x, host |-> host]
    /\ pc' = "predicted"
    /\ UNCHANGED <<file, tags, fetch_log, predictor_info, ifd, prefetch>>
    /\ UNCHANGED readerVars

UnpredictFloat(x, host) ==
    /\ pc = "decoded"
    /\ outcome' = unpredict_float(file,
                                  Zeros(predictor_info.chunk_height
                                        * output_row_stride(predictor_info, x)),
                                  predictor_info, x, host)
    /\ request' = [op |-> "float", x |-> x, host |-> host]
    /\ pc' = "predicted"
    /\ UNCHANGED <<file, tags, fetch_log, predictor_info, ifd, prefetch>>
    /\ UNCHANGED readerVars

NextPredictor ==
    \/ \E x \in 0..2, host \in Endiannesses : UnpredictHdiff(x, host)
    \/ \E x \in 0..2, host \in Endiannesses : UnpredictFloat(x, host)

SpecPredictor == InitPredictor /\ [][NextPredictor]_vars

----------------------------------------------------------------------------
(* Claims about the reverse predictors (SpecPredictor) *)

Predicted(op) ==
    /\ pc = "predicted"
    /\ request.op = op
    /\ request.x < chunks_across(predictor_info)

\* element e (from 0) of size bytes of a buffer, most significant digit first
ElementOf(b, e, size, host) == EndianRead(SubSeq(b, e * size + 1, (e + 1) * size), host)

\* element e of the chunk as the file stores it
StoredElement(e, size) == EndianRead(SubSeq(file, e * size + 1, (e + 1) * size),
                                     predictor_info.endianness)

\* C19: for every tile column, every samples_per_pixel, every element width
\* in {8, 16, 32, 64} and both file endiannesses, unpredict_hdiff succeeds and
\* leaves, in host byte order, a buffer in which the first samples_per_pixel
\* elements of every row of output_row_stride(x) bytes are the stored ones and
\* every other element is the sum modulo 2^width of its stored value and the
\* element samples_per_pixel before it in the same row.
C19_HorizontalPredictor ==
    Predicted("hdiff") =>
        /\ outcome.kind = "Ok"
        /\ Len(outcome.value) = Len(file)
        /\ \A size \in {predictor_info.bits_per_sample \div 8} :
           \A e \in 0..((Len(file) \div size) - 1) :
              ElementOf(outcome.value, e, size, request.host) =
                 IF e % (output_row_stride(predictor_info, request.x) \div size)
                       < predictor_info.samples_per_pixel
                 THEN StoredElement(e, size)
                 ELSE wrapping_add(StoredElement(e, size),
                                   ElementOf(outcome.value,
                                             e - predictor_info.samples_per_pixel,
                                             size, request.host))

\* a narrower right-edge tile of two-sample pixels, wider than a byte, stored
\* in the other byte order than the host's, whose sums wrap around
C19_Witness ==
    /\ Predicted("hdiff")
    /\ request.x = 1
    /\ predictor_info.image_width = 5
    /\ predictor_info.samples_per_pixel = 2
    /\ predictor_info.planar_configuration = Chunky
    /\ predictor_info.bits_per_sample = 32
    /\ predictor_info.endianness # request.host
    /\ predictor_info.chunk_height = 2
    /\ file[1] = 255
    /\ outcome.kind = "Ok"
    /\ ElementOf(outcome.value, 2, 4, request.host) = <<255, 255, 255, 254>>

\* sum modulo 256 of the bytes of a row at p, p - samples, p - 2 * samples, ..
RECURSIVE Undiff(_, _, _)
Undiff(row, p, samples) ==
    IF p <= samples THEN row[p] ELSE (row[p] + Undiff(row, p - samples, samples)) % 256

\* byte q of the host-order values of a row of undifferenced, shuffled bytes:
\* byte k of value i is stored at k * (number of values) + i
Unshuffled(row, q, samples, n, host) ==
    Undiff(row,
           (Len(row) \div n) * (IF host = LittleEndian THEN n - 1 - ((q - 1) % n)
                                ELSE (q - 1) % n)
           + ((q - 1) \div n) + 1,
           samples)

\* the bytes of a full-width row of chunk_width x samples_per_pixel samples
FullRow == (predictor_info.chunk_width * predictor_info.samples_per_pixel
            * predictor_info.bits_per_sample) \div 8

\* C20: for every bit depth in {16, 32, 64}, every samples_per_pixel and every
\* tile column, a narrower right-edge tile included, unpredict_float succeeds
\* and output row r is the first output_row_stride(x) bytes of the
\* undifferenced and unshuffled full-width input row r, whatever the file's
\* endianness field; any other bit depth returns an error.
C20_FloatPredictor ==
    (Predicted("float") /\ predictor_info.planar_configuration = Chunky) =>
        IF predictor_info.bits_per_sample \in {16, 32, 64}
        THEN /\ outcome.kind = "Ok"
             /\ \A stride \in {output_row_stride(predictor_info, request.x)} :
                \A r \in 1..predictor_info.chunk_height :
                \A q \in 1..stride :
                   outcome.value[(r - 1) * stride + q] =
                      Unshuffled(SubSeq(file, (r - 1) * FullRow + 1, r * FullRow), q,
                                 predictor_info.samples_per_pixel,
                                 predictor_info.bits_per_sample \div 8, request.host)
        ELSE outcome.kind = "Err" /\ outcome.err = General

----------------------------------------------------------------------------
(* Chunk geometry and buffer sizing: predictor.rs, tile.rs,                 *)
(* decoding_result.rs                                                       *)

IntSizeError == "IntSizeError"
UnsupportedBitsPerChannel == "UnsupportedBitsPerChannel"

\* [ok, value]: the height in pixels of the chunks of row y
chunk_height_pixels(info, y) ==
    IF y >= CeilDiv(info.image_height, info.chunk_height)
    THEN [ok |-> FALSE, value |-> 0]
    ELSE IF y = CeilDiv(info.image_height, info.chunk_height) - 1
         THEN [ok |-> TRUE, value |-> info.image_height - info.chunk_height * y]
         ELSE [ok |-> TRUE, value |-> info.chunk_height]

\* the rows of the output of a chunk (the chunk is known to exist)
output_rows(info, y) ==
    IF info.planar_configuration = Chunky
    THEN chunk_height_pixels(info, y).value
    ELSE chunk_height_pixels(info, y).value * info.samples_per_pixel

\* the variant and the element count of the buffer, or the error
from_predictor_info(info, chunk_x, chunk_y) ==
    IF ~chunk_width_pixels(info, chunk_x).ok \/ ~chunk_height_pixels(info, chunk_y).ok
    THEN ErrR(TileIndexError, <<>>)
    ELSE
    LET \* usize::checked_mul, -1 for None; the model's usize ends at 2^31 - 1, and
        \* the products of the dimensions drawn are below it or above 2^32 - 1
        checked_mul(a, b) ==
            IF a < 0 \/ b < 0 \/ (a # 0 /\ b > 2147483647 \div a) THEN -1 ELSE a * b
        buffer_size == checked_mul(checked_mul(chunk_width_pixels(info, chunk_x).value,
                                               output_rows(info, chunk_y)),
                                   info.samples_per_pixel)
        n == info.bits_per_sample
        bytes == IF n <= 8 THEN 1 ELSE IF n <= 16 THEN 2 ELSE IF n <= 32 THEN 4 ELSE 8
    IN IF buffer_size < 0
       THEN ErrR(IntSizeError, <<>>)
       ELSE IF n > 64 \/ (info.sample_format = "IEEEFP" /\ n \notin {32, 64})
       THEN ErrR(UnsupportedBitsPerChannel, <<>>)
       ELSE OkR([variant |-> <<info.sample_format, bytes * 8>>,
                 len |-> buffer_size, bytes |-> bytes], <<>>)

\* tile.rs bits_per_pixel, on the bits_per_sample array: [kind, value]
Tile_bits_per_pixel(bits_per_sample, samples_per_pixel, planar_configuration) ==
    LET product[k \in 0..Len(bits_per_sample)] ==
            IF k = 0 THEN 1 ELSE bits_per_sample[k] * product[k - 1]
    IN IF planar_configuration = Planar
       THEN [kind |-> "Ok", value |-> bits_per_sample[1]]
       ELSE IF Len(bits_per_sample) = 1
       THEN [kind |-> "Ok", value |-> samples_per_pixel * bits_per_sample[1]]
       ELSE IF samples_per_pixel # Len(bits_per_sample)
       THEN [kind |-> "Panic", value |-> 0]
       ELSE [kind |-> "Ok", value |-> product[Len(bits_per_sample)]]

\* the dimensions drawn: small ones, and 65536 for an image of one huge chunk
ChunkInfos ==
    {i \in [endianness : {LittleEndian}, image_width : {1, 2, 4, 5, 65536},
            image_height : {1, 4, 65536}, chunk_width : {1, 3, 65536},
            chunk_height : {3, 65536}, bits_per_sample : {8, 16, 32, 64},
            samples_per_pixel : 1..MaxSamples, sample_format : {"Uint", "Int", "IEEEFP"},
            planar_configuration : {Chunky, Planar}] :
        /\ i.image_width = 65536 => i.chunk_width = 65536
        /\ i.image_height = 65536 => i.chunk_height = 65536}

InitChunk ==
    /\ predictor_info \in ChunkInfos
    /\ file = <<>>
    /\ pc = "chunk"
    /\ outcome = NotRun
    /\ request = Idle
    /\ fetch_log = <<>>
    /\ tags = <<>> /\ ifd = Idle /\ prefetch = Idle /\ layout = Idle
    /\ endianness = LittleEndian /\ bigtiff = FALSE /\ next_ifd_offset = None
    /\ ifd_reader = Idle /\ tag_idx = 0 /\ ifds = <<>> /\ visited = <<>> /\ cursor = Idle
    /\ entry = Idle /\ parsed = Idle

ChunkCall(req, result) ==
    /\ pc = "chunk"
    /\ outcome' = result
    /\ request' = req
    /\ pc' = "sized"
    /\ UNCHANGED <<file, tags, fetch_log, predictor_info, ifd, prefetch>>
    /\ UNCHANGED readerVars

FromPredictorInfo(x, y) ==
    ChunkCall([op |-> "from_predictor_info", x |-> x, y |-> y],
              from_predictor_info(predictor_info, x, y))

ChunkWidthPixels(x) ==
    ChunkCall([op |-> "chunk_width_pixels", x |-> x],
              IF chunk_width_pixels(predictor_info, x).ok
              THEN OkR(chunk_width_pixels(predictor_info, x).value, <<>>)
              ELSE ErrR(<<TileIndexError, x,
                          CeilDiv(predictor_info.image_width, predictor_info.chunk_width)>>,
                        <<>>))

ChunkHeightPixels(y) ==
    ChunkCall([op |-> "chunk_height_pixels", x |-> y],
              IF chunk_height_pixels(predictor_info, y).ok
              THEN OkR(chunk_height_pixels(predictor_info, y).value, <<>>)
              ELSE ErrR(<<TileIndexError, y,
                          CeilDiv(predictor_info.image_height, predictor_info.chunk_height)>>,
                        <<>>))

\* bits_per_pixel() and output_row_stride(0) of the tile.rs PredictorInfo
\* whose bits_per_sample array is bits
BitsPerPixel(bits) ==
    \E b \in {Tile_bits_per_pixel(bits, predictor_info.samples_per_pixel,
                                  predictor_info.planar_configuration)} :
        ChunkCall([op |-> "bits_per_pixel", bits |-> bits],
                  IF b.kind = "Panic"
                  THEN PanicR("assertion failed", <<>>)
                  ELSE OkR([bits_per_pixel |-> b.value,
                            output_row_stride |->
                                (chunk_width_pixels(predictor_info, 0).value * b.value)
                                    \div 8], <<>>))

NextChunk ==
    \/ \E x \in 0..2, y \in 0..2 : FromPredictorInfo(x, y)
    \/ \E x \in 0..5 : ChunkWidthPixels(x)
    \/ \E y \in 0..2 : ChunkHeightPixels(y)
    \/ \E bits \in {<<predictor_info.bits_per_sample>>,
                    [k \in 1..predictor_info.samples_per_pixel |->
                        predictor_info.bits_per_sample]} : BitsPerPixel(bits)

SpecChunk == InitChunk /\ [][NextChunk]_vars

----------------------------------------------------------------------------
(* Claims about chunk geometry and buffer sizing (SpecChunk) *)

Sized(op) == pc = "sized" /\ request.op = op

\* the product of two dimensions does not fit the model's usize
Overflows(a, b) == a # 0 /\ b > 2147483647 \div a

\* C21: for every chunk (x, y) of the grid, in Chunky and in Planar
\* configuration, the buffer that from_predictor_info creates has
\* chunk_width_pixels(x) * chunk_height_pixels(y) * bits_per_pixel() / 8
\* bytes, and the call returns IntSizeError exactly when the product of the
\* dimensions overflows.
C21_BufferSize ==
    (/\ Sized("from_predictor_info")
     /\ chunk_width_pixels(predictor_info, request.x).ok
     /\ chunk_height_pixels(predictor_info, request.y).ok) =>
        \A w \in {chunk_width_pixels(predictor_info, request.x).value},
           h \in {chunk_height_pixels(predictor_info, request.y).value} :
           IF Overflows(w, h) \/ Overflows(w * h, predictor_info.samples_per_pixel)
           THEN outcome.kind = "Err" /\ outcome.err = IntSizeError
           ELSE /\ outcome.err # IntSizeError
                /\ outcome.kind = "Ok" =>
                      outcome.value.len * outcome.value.bytes
                         = (w * h * bits_per_pixel(predictor_info)) \div 8

RECURSIVE SumOfWidths(_, _)
SumOfWidths(info, n) ==
    IF n = 0 THEN 0 ELSE chunk_width_pixels(info, n - 1).value + SumOfWidths(info, n - 1)

RECURSIVE SumOfHeights(_, _)
SumOfHeights(info, n) ==
    IF n = 0 THEN 0 ELSE chunk_height_pixels(info, n - 1).value + SumOfHeights(info, n - 1)

\* one axis of C22: the answer for chunk i of an image of `image` pixels cut
\* in chunks of `chunk` pixels
GridAnswer(image, chunk, i) ==
    IF i >= CeilDiv(image, chunk)
    THEN outcome = ErrR(<<TileIndexError, i, CeilDiv(image, chunk)>>, <<>>)
    ELSE /\ outcome.kind = "Ok"
         /\ outcome.value = IF i < CeilDiv(image, chunk) - 1 THEN chunk ELSE image - chunk * i
         /\ outcome.value \in 1..chunk

\* C22: chunk_width_pixels(x) is TileIndexError(x, chunks_across) exactly when
\* x >= ceil(image_width / chunk_width); otherwise chunk_width for every chunk
\* but the last and image_width - chunk_width * x for the last, a width in
\* 1..chunk_width; the widths of all chunks sum to image_width. The same for
\* chunk_height_pixels.
C22_ChunkGrid ==
    /\ Sized("chunk_width_pixels") =>
          /\ GridAnswer(predictor_info.image_width, predictor_info.chunk_width, request.x)
          /\ SumOfWidths(predictor_info, chunks_across(predictor_info))
                = predictor_info.image_width
    /\ Sized("chunk_height_pixels") =>
          /\ GridAnswer(predictor_info.image_height, predictor_info.chunk_height, request.x)
          /\ SumOfHeights(predictor_info,
                          CeilDiv(predictor_info.image_height, predictor_info.chunk_height))
                = predictor_info.image_height

\* the narrower last chunk of a row of two chunks
C22_Witness ==
    /\ Sized("chunk_width_pixels")
    /\ predictor_info.image_width = 5
    /\ predictor_info.chunk_width = 3
    /\ request.x = 1
    /\ outcome.kind = "Ok"
    /\ outcome.value = 2

RECURSIVE SumOfBits(_)
SumOfBits(bits) == IF bits = <<>> THEN 0 ELSE Head(bits) + SumOfBits(Tail(bits))

\* C23: bits_per_pixel is the total number of bits of a pixel: in Chunky
\* configuration samples_per_pixel * bits, whether bits_per_sample has one
\* entry or samples_per_pixel equal entries, with the output_row_stride that
\* follows from it; in Planar configuration bits_per_sample[0].
C23_BitsPerPixel ==
    Sized("bits_per_pixel") =>
        /\ outcome.kind = "Ok"
        /\ outcome.value.bits_per_pixel =
              IF predictor_info.planar_configuration = Planar
              THEN request.bits[1]
              ELSE IF Len(request.bits) = 1
                   THEN predictor_info.samples_per_pixel * request.bits[1]
                   ELSE SumOfBits(request.bits)
        /\ outcome.value.output_row_stride =
              (chunk_width_pixels(predictor_info, 0).value * outcome.value.bits_per_pixel)
                 \div 8
        /\ predictor_info.planar_configuration = Chunky =>
              outcome.value.bits_per_pixel
                 = predictor_info.samples_per_pixel * predictor_info.bits_per_sample

----------------------------------------------------------------------------
(* Decoding a tile: tile.rs Tile::decode and the codecs of decoder.rs       *)

\* the longest result buffer and decompressed stream
MaxBuffer == 3

UnsupportedCompressionMethod == "UnsupportedCompressionMethod"
UnsupportedPredictor == "UnsupportedPredictor"
IOError == "IOError"

\* DecoderRegistry::default()
DefaultDecoders == {"None", "Deflate", "OldDeflate", "LZW", "ModernJPEG"}

\* the other order of the two lookups
MutDecode(tile, decoder_registry, predictor_registry, decoded) ==
    IF tile.predictor \notin predictor_registry
    THEN ErrR(UnsupportedPredictor, <<"predictor_registry.get">>)
    ELSE IF tile.compression_method \notin decoder_registry
    THEN ErrR(UnsupportedCompressionMethod, <<"predictor_registry.get", "decoder_registry.get">>)
    ELSE OkR(decoded.value, <<"predictor_registry.get", "decoder_registry.get", "decode_tile",
                             "rev_predict_fix_endianness">>)

\* Tile::decode, with `decoded` the result of the codec on the tile's bytes;
\* the log holds the calls made, in order
decode(tile, decoder_registry, predictor_registry, decoded) ==
    IF tile.compression_method \notin decoder_registry
    THEN ErrR(UnsupportedCompressionMethod, <<"decoder_registry.get">>)
    ELSE IF tile.predictor \notin predictor_registry
    THEN ErrR(UnsupportedPredictor, <<"decoder_registry.get", "predictor_registry.get">>)
    ELSE IF decoded.kind # "Ok"
    THEN [decoded EXCEPT !.fetches = <<"decoder_registry.get", "predictor_registry.get",
                                       "decode_tile">>]
    ELSE OkR(decoded.value, <<"decoder_registry.get", "predictor_registry.get", "decode_tile",
                             "rev_predict_fix_endianness">>)

\* the start of a sequence, at most n long
Prefix(s, n) == SubSeq(s, 1, IF Len(s) < n THEN Len(s) ELSE n)

\* decode_modern_jpeg up to the decoder: the byte stream it is handed
JpegStream(compressed_buffer, jpeg_tables) ==
    IF jpeg_tables.kind = "None"
    THEN OkR(compressed_buffer, <<>>)
    ELSE IF Len(compressed_buffer) < 2
    THEN ErrR(IOError, <<>>)
    ELSE IF Len(jpeg_tables.val) < 2
    THEN PanicR("attempt to subtract with overflow", <<>>)
    ELSE OkR(SubSeq(jpeg_tables.val, 1, Len(jpeg_tables.val) - 2)
             \o SubSeq(compressed_buffer, 3, Len(compressed_buffer)), <<>>)

\* the jpeg decoder: a stream is an image when it starts with SOI (FF D8) and
\* ends with EOI (FF D9); its pixels are the bytes in between
JpegDecode(stream) ==
    IF /\ Len(stream) >= 4
       /\ SubSeq(stream, 1, 2) = <<255, 216>>
       /\ SubSeq(stream, Len(stream) - 1, Len(stream)) = <<255, 217>>
    THEN OkR(SubSeq(stream, 3, Len(stream) - 2), <<>>)
    ELSE ErrR("External", <<>>)

\* Decoder::decode_tile of the four codecs into a result buffer of n zeroes;
\* `stream` is what the decompressor yields for the compressed bytes
decode_tile(codec, compressed_buffer, n, stream, jpeg_tables) ==
    IF codec = "None"
    THEN IF Len(compressed_buffer) # n
         THEN PanicR("assertion failed: left == right", <<>>)
         ELSE OkR(compressed_buffer, <<>>)
    ELSE IF codec = "Deflate"
    THEN IF Len(stream) < n
         THEN ErrR(IOError, <<>>)
         ELSE OkR(Prefix(stream, n), <<>>)
    ELSE IF codec = "LZW"
    THEN OkR(Prefix(stream, n) \o Zeros(n - Len(Prefix(stream, n))), <<>>)
    ELSE IF JpegStream(compressed_buffer, jpeg_tables).kind # "Ok"
    THEN JpegStream(compressed_buffer, jpeg_tables)
    ELSE IF JpegDecode(JpegStream(compressed_buffer, jpeg_tables).value).kind # "Ok"
    THEN JpegDecode(JpegStream(compressed_buffer, jpeg_tables).value)
    ELSE IF Len(JpegDecode(JpegStream(compressed_buffer, jpeg_tables).value).value) # n
    THEN PanicR("source slice length does not match destination slice length", <<>>)
    ELSE JpegDecode(JpegStream(compressed_buffer, jpeg_tables).value)

\* compressed tiles: JPEG images with 0..MaxBuffer - 1 bytes of pixels after
\* one byte of tables, and their first bytes
Image(k) == <<255, 216, 9>> \o [i \in 1..k |-> i] \o <<255, 217>>
Compressed ==
    {Image(k) : k \in 0..(MaxBuffer - 1)} \cup {Prefix(Image(0), k) : k \in 0..3}
\* jpeg_tables: absent, empty, one byte, or an image of tables only
Tables == {Idle, Val("Some", <<>>), Val("Some", <<255>>), Val("Some", <<255, 216, 255, 217>>),
           Val("Some", <<255, 216, 9, 255, 217>>)}
Streams == {[i \in 1..k |-> 10 + i] : k \in 0..MaxBuffer}

InitDecode ==
    /\ file \in Compressed
    /\ pc = "tile"
    /\ outcome = NotRun
    /\ request = Idle
    /\ fetch_log = <<>>
    /\ predictor_info = Idle
    /\ tags = <<>> /\ ifd = Idle /\ prefetch = Idle /\ layout = Idle
    /\ endianness = LittleEndian /\ bigtiff = FALSE /\ next_ifd_offset = None
    /\ ifd_reader = Idle /\ tag_idx = 0 /\ ifds = <<>> /\ visited = <<>> /\ cursor = Idle
    /\ entry = Idle /\ parsed = Idle

DecodeCall(req, result) ==
    /\ pc = "tile"
    /\ outcome' = result
    /\ request' = req
    /\ pc' = "tile_decoded"
    /\ UNCHANGED <<file, tags, fetch_log, predictor_info, ifd, prefetch>>
    /\ UNCHANGED readerVars

\* Tile::decode of a tile of the compressed bytes
Decode(tile, decoder_registry, predictor_registry, n, stream) ==
    DecodeCall([op |-> "decode", tile |-> tile, decoder_registry |-> decoder_registry,
                predictor_registry |-> predictor_registry],
               decode(tile, decoder_registry, predictor_registry,
                      decode_tile(tile.compression_method, file, n, stream, Idle)))

\* Decoder::decode_tile of one of the default codecs
DecodeTile(codec, n, stream, jpeg_tables) ==
    DecodeCall([op |-> "decode_tile", codec |-> codec, n |-> n, stream |-> stream,
                jpeg_tables |-> jpeg_tables],
               decode_tile(codec, file, n, stream, jpeg_tables))

NextDecode ==
    \/ \E tile \in [compression_method : {"None", "Deflate", "LZW", "ModernJPEG", "Other"},
                    predictor : {"None", "Horizontal", "FloatingPoint"}],
          decoder_registry \in {{}, DefaultDecoders},
          predictor_registry \in {{}, {"None"}, {"None", "Horizontal", "FloatingPoint"}},
          n \in {0, Len(file)}, stream \in {<<>>, file} :
            Decode(tile, decoder_registry, predictor_registry, n, stream)
    \/ \E codec \in {"None", "Deflate", "LZW", "ModernJPEG"}, n \in 0..MaxBuffer,
          stream \in Streams, jpeg_tables \in Tables :
            DecodeTile(codec, n, IF codec = "None" THEN file ELSE stream, jpeg_tables)

SpecDecode == InitDecode /\ [][NextDecode]_vars

----------------------------------------------------------------------------
(* Claims about decoding a tile (SpecDecode) *)

TileDecoded(op) == pc = "tile_decoded" /\ request.op = op

\* the position of a call in the log of the calls made, 0 when it was not made
CallAt(name) ==
    IF \E i \in 1..Len(outcome.fetches) : outcome.fetches[i] = name
    THEN CHOOSE i \in 1..Len(outcome.fetches) : outcome.fetches[i] = name
    ELSE 0

\* C24: without a codec for the tile's compression method Tile::decode returns
\* UnsupportedCompressionMethod, without an entry for its predictor
\* UnsupportedPredictor; both lookups come before any codec runs, the missing
\* codec is reported first, and the predictor runs only on the output of a
\* decompression that succeeded.
C24_DecodeDispatch ==
    TileDecoded("decode") =>
        /\ request.tile.compression_method \notin request.decoder_registry =>
              /\ outcome.kind = "Err"
              /\ outcome.err = UnsupportedCompressionMethod
              /\ CallAt("decode_tile") = 0
        /\ (/\ request.tile.compression_method \in request.decoder_registry
            /\ request.tile.predictor \notin request.predictor_registry) =>
              /\ outcome.kind = "Err"
              /\ outcome.err = UnsupportedPredictor
              /\ CallAt("decode_tile") = 0
        /\ CallAt("decode_tile") # 0 =>
              /\ 0 < CallAt("decoder_registry.get")
              /\ CallAt("decoder_registry.get") < CallAt("predictor_registry.get")
              /\ CallAt("predictor_registry.get") < CallAt("decode_tile")
        /\ CallAt("rev_predict_fix_endianness") # 0 =>
              /\ outcome.kind = "Ok"
              /\ CallAt("decode_tile") # 0
              /\ CallAt("decode_tile") < CallAt("rev_predict_fix_endianness")
        /\ (CallAt("decode_tile") # 0 /\ CallAt("rev_predict_fix_endianness") = 0) =>
              outcome.kind # "Ok"

\* neither a codec nor a predictor entry: the missing codec is reported
C24_Witness ==
    /\ TileDecoded("decode")
    /\ request.decoder_registry = {}
    /\ request.predictor_registry = {}
    /\ outcome.err = UnsupportedCompressionMethod
    /\ outcome.fetches = <<"decoder_registry.get">>

\* what the codec of the request decompresses the tile to: [kind, value]
Decompressed ==
    IF request.codec = "None" THEN OkR(file, <<>>)
    ELSE IF request.codec = "ModernJPEG" THEN JpegDecode(file)
    ELSE OkR(request.stream, <<>>)

\* C25: for each default codec, when the decompressed data is shorter or
\* longer than the result buffer, decode_tile returns an error: no success
\* with a partly filled or truncated buffer and no abort; the uncompressed
\* codec succeeds only when the compressed length is the buffer length, and
\* then the buffer equals the input.
C25_SizeMismatch ==
    (TileDecoded("decode_tile") /\ request.jpeg_tables = Idle) =>
        /\ outcome.kind # "Panic"
        /\ (Decompressed.kind = "Ok" /\ Len(Decompressed.value) # request.n) =>
              outcome.kind = "Err"
        /\ request.codec = "None" =>
              /\ outcome.kind = "Ok" <=> Len(file) = request.n
              /\ outcome.kind = "Ok" => outcome.value = file

\* C26: with jpeg_tables present the JPEG decoder is handed the tables
\* without their last two bytes followed by the tile without its first two
\* bytes; with jpeg_tables absent or empty the result is that of the tile
\* alone, and no abort.
C26_JpegTablesSplice ==
    (TileDecoded("decode_tile") /\ request.codec = "ModernJPEG" /\ Len(file) >= 2) =>
        IF request.jpeg_tables = Idle \/ request.jpeg_tables.val = <<>>
        THEN /\ (JpegDecode(file).kind = "Ok" => Len(JpegDecode(file).value) = request.n) =>
                   outcome.kind # "Panic"
             /\ (JpegDecode(file).kind = "Ok" /\ Len(JpegDecode(file).value) = request.n) =>
                   outcome = JpegDecode(file)
        ELSE \A stream \in {SubSeq(request.jpeg_tables.val, 1, Len(request.jpeg_tables.val) - 2)
                            \o SubSeq(file, 3, Len(file))} :
                (/\ Len(request.jpeg_tables.val) >= 2
                 /\ JpegDecode(stream).kind = "Ok"
                 /\ Len(JpegDecode(stream).value) = request.n) =>
                    outcome = JpegDecode(stream)

----------------------------------------------------------------------------
(* The GeoKeyDirectory: ifd.rs from_tags and extra_tags.rs maybe_parse      *)

\* the most key entries of a GeoKeyDirectoryTag
MaxKeys == 3

\* the parse of a GeoKeyDirectoryTag array of u16 with the GeoAsciiParams
\* characters and the GeoDoubleParams numbers: the map from GeoKeyTag to
\* Value, or the abort; GeoAsciiParamsTag is 34737, GeoDoubleParamsTag 34736;
\* of the GeoKeyTag ids the model has ModelType (1024),
\* Citation (1026) and GeogLinearUnitSize (2053)
maybe_parse(data, geo_ascii_params, geo_double_params) ==
    LET chunks == Chunks(data, 4)
        number_of_keys == chunks[1][4]
        s(chunk) == SubSeq(geo_ascii_params, chunk[4] + 1, chunk[4] + chunk[3])
        \* an entry that aborts the parse
        Aborts(i) ==
            \/ Len(chunks) < i + 1
            \/ Len(chunks[i + 1]) < 4
            \/ chunks[i + 1][1] \notin {1024, 1026, 2053}
            \/ /\ chunks[i + 1][2] = 34737
               /\ chunks[i + 1][4] + chunks[i + 1][3] > Len(geo_ascii_params)
            \/ /\ chunks[i + 1][2] = 34736
               /\ IF chunks[i + 1][3] = 1
                  THEN chunks[i + 1][4] + 1 > Len(geo_double_params)
                  ELSE chunks[i + 1][4] + chunks[i + 1][3] > Len(geo_double_params)
        Inserts(i) == chunks[i + 1][2] \in {0, 34737, 34736}
        ValueOf(chunk) ==
            IF chunk[2] = 0 THEN Val("Short", <<chunk[4]>>)
            ELSE IF chunk[2] = 34737
            THEN Val("Ascii", IF s(chunk) # <<>> /\ s(chunk)[Len(s(chunk))] = "|"
                              THEN SubSeq(s(chunk), 1, Len(s(chunk)) - 1)
                              ELSE s(chunk))
            ELSE IF chunk[3] = 1
            THEN Val("Double", <<geo_double_params[chunk[4] + 1]>>)
            ELSE Val("List", [k \in 1..chunk[3] |->
                                Val("Double", <<geo_double_params[chunk[4] + k]>>)])
    IN IF chunks = <<>> \/ Len(chunks[1]) < 4
       THEN PanicR("If the geo key directory exists, a header should exist.", <<>>)
       ELSE IF chunks[1][1] # 1 \/ chunks[1][2] # 1
       THEN PanicR("assertion failed: left == right", <<>>)
       ELSE IF \E i \in 1..number_of_keys : Aborts(i)
       THEN PanicR("Unknown GeoKeyTag id / index out of range", <<>>)
       ELSE OkR([key \in {chunks[i + 1][1] : i \in {j \in 1..number_of_keys : Inserts(j)}} |->
                    ValueOf(chunks[1 + CHOOSE i \in 1..number_of_keys :
                                       /\ Inserts(i)
                                       /\ chunks[i + 1][1] = key
                                       /\ \A j \in (i + 1)..number_of_keys :
                                             ~(Inserts(j) /\ chunks[j + 1][1] = key)])],
                <<>>)

\* key entries: known keys at the three locations, a key at another
\* location, and a key id that is no GeoKeyTag
KeyEntries ==
    {<<1024, 0, 1, 7>>, <<1026, 34737, 3, 0>>, <<2053, 34736, 1, 1>>,
     <<2053, 34736, 2, 0>>, <<1024, 33550, 1, 0>>, <<9999, 0, 1, 5>>}

InitGeo ==
    /\ \E keys \in SeqsUpTo(KeyEntries, MaxKeys) :
          entry = [data |-> <<1, 1, 0, Len(keys)>> \o Flatten(keys),
                   geo_ascii_params |-> <<"a", "b", "|">>,
                   geo_double_params |-> <<15, 25>>]
    /\ file = <<>>
    /\ pc = "geo"
    /\ outcome = NotRun
    /\ request = Idle
    /\ fetch_log = <<>>
    /\ predictor_info = Idle
    /\ tags = <<>> /\ ifd = Idle /\ prefetch = Idle /\ layout = Idle
    /\ endianness = LittleEndian /\ bigtiff = FALSE /\ next_ifd_offset = None
    /\ ifd_reader = Idle /\ tag_idx = 0 /\ ifds = <<>> /\ visited = <<>> /\ cursor = Idle
    /\ parsed = Idle

MaybeParse ==
    /\ pc = "geo"
    /\ outcome' = maybe_parse(entry.data, entry.geo_ascii_params, entry.geo_double_params)
    /\ pc' = "geo_parsed"
    /\ UNCHANGED <<file, tags, fetch_log, predictor_info, ifd, prefetch, request>>
    /\ UNCHANGED readerVars

NextGeo == MaybeParse

SpecGeo == InitGeo /\ [][NextGeo]_vars

(* Claims about the GeoKeyDirectory (SpecGeo) *)

\* key entry i (from 1) of the directory
KeyEntry(i) == SubSeq(entry.data, 4 * i + 1, 4 * i + 4)
KnownKey(i) == KeyEntry(i)[1] \in {1024, 1026, 2053}
\* the last entry of a known key at one of the three locations
Defines(i, key) ==
    /\ KeyEntry(i)[1] = key
    /\ KeyEntry(i)[2] \in {0, 34737, 34736}
    /\ \A j \in (i + 1)..entry.data[4] :
          ~(KeyEntry(j)[1] = key
            /\ KeyEntry(j)[2] \in {0, 34737, 34736})

\* C27: for a GeoKeyDirectoryTag array with version 1 and revision 1, an
\* entry whose key_id is no known GeoKeyTag is skipped and the directory is
\* produced with every known key: location 0 gives Short(value_or_offset),
\* the GeoAsciiParams location the count characters at the offset without a
\* trailing '|', the GeoDoubleParams location a scalar for count 1 and a
\* List otherwise.
C27_GeoKeyDirectory ==
    pc = "geo_parsed" =>
        /\ outcome.kind = "Ok"
        /\ \A i \in 1..entry.data[4] :
              \A key \in {1024, 1026, 2053} :
                 Defines(i, key) =>
                    /\ key \in DOMAIN outcome.value
                    /\ outcome.value[key] =
                          IF KeyEntry(i)[2] = 0
                          THEN Val("Short", <<KeyEntry(i)[4]>>)
                          ELSE IF KeyEntry(i)[2] = 34737
                          THEN Val("Ascii", <<"a", "b">>)
                          ELSE IF KeyEntry(i)[3] = 1
                          THEN Val("Double", <<25>>)
                          ELSE Val("List", <<Val("Double", <<15>>), Val("Double", <<25>>)>>)
        /\ \A key \in DOMAIN outcome.value : \E i \in 1..entry.data[4] : Defines(i, key)

----------------------------------------------------------------------------
(* Claims about retrying and dropping read_next_ifd (SpecRetry) *)

\* a step of a call of read_next_ifd
InReadNextIfd == pc \in {"walk", "ifd_open", "ifd_read"}

\* C28: read_next_ifd writes next_ifd_offset only after the IFD and the
\* offset of the next IFD were both read; when a step returns an error or
\* the future is dropped, next_ifd_offset, endianness and bigtiff are
\* unchanged and the next call opens the same IFD; with next_ifd_offset None
\* every call returns Ok(None) and fetches nothing.
C28_CommitOnSuccess ==
    [][/\ (InReadNextIfd /\ next_ifd_offset' # next_ifd_offset) =>
             (pc = "ifd_read" /\ pc' = "walk" /\ Len(ifds') = Len(ifds) + 1)
       /\ (InReadNextIfd /\ Len(ifds') = Len(ifds)) =>
             UNCHANGED <<next_ifd_offset, endianness, bigtiff>>
       /\ (pc = "walk" /\ next_ifd_offset # None /\ pc' # "walk") =>
             visited' = Append(visited, ToNat(next_ifd_offset[1]))
       /\ (pc \in {"walk", "done"} /\ next_ifd_offset = None) =>
             /\ outcome' = OkR(NoValue, <<>>)
             /\ fetch_log' \in {fetch_log, <<>>}
             /\ UNCHANGED <<next_ifd_offset, visited, ifds>>]_vars

\* the first IFD is opened a second time after a failed or dropped call
C28_Witness ==
    /\ pc = "ifd_open"
    /\ ifds = <<>>
    /\ Len(visited) = 2
    /\ visited[1] = visited[2]
    /\ next_ifd_offset # None
    /\ ToNat(next_ifd_offset[1]) = visited[1]

----------------------------------------------------------------------------
(* Concurrent calls on one PrefetchReader: reader.rs 257-305. Every task    *)
(* makes one call; a call is suspended at each lock().await and at the      *)
(* await of the inner source, and runs without interruption in between.     *)

Tasks == {1, 2}
\* the ranges the tasks ask for
Ranges == {<<s, s + l>> : s \in 0..2, l \in 1..2}
NoCall == [op |-> "None", start |-> 0, end |-> 0, at |-> "idle", res |-> <<>>, result |-> NotRun]

InitConcurrent ==
    /\ file \in {[q \in 1..n |-> q] : n \in 0..MaxFile}
    /\ prefetch \in {p \in {PrefetchNew("PrefetchReader", inner, file, n) :
                              inner \in {"exact", "truncating"}, n \in 0..MaxPrefetch} : p.ok}
    /\ pc = "ready" /\ request = [t \in Tasks |-> NoCall] /\ outcome = NotRun /\ fetch_log = <<>>
    /\ tags = <<>> /\ ifd = Idle /\ predictor_info = Idle /\ layout = Idle
    /\ endianness = LittleEndian /\ bigtiff = FALSE /\ next_ifd_offset = None
    /\ ifd_reader = Idle /\ tag_idx = 0 /\ ifds = <<>> /\ visited = <<>> /\ cursor = Idle
    /\ entry = Idle /\ parsed = Idle

ConcurrentStep(t, call, cache, log) ==
    /\ request' = [request EXCEPT ![t] = call]
    /\ prefetch' = [prefetch EXCEPT !.tile_info_cache = cache]
    /\ fetch_log' = log
    /\ UNCHANGED <<file, tags, ifd, pc, outcome, predictor_info>>
    /\ UNCHANGED readerVars

\* get_metadata_bytes(range): a range inside the buffer is sliced before the
\* future is built, any other range returns a future that starts at the lock
GetMetadataBytes(t, range) ==
    /\ request[t].at = "idle"
    /\ ConcurrentStep(t,
          IF InBuffer(range[2], Len(prefetch.buffer))
          THEN [NoCall EXCEPT !.op = "get_metadata_bytes", !.start = range[1], !.end = range[2],
                              !.at = "done",
                              !.result = Slice(prefetch.buffer, range[1], range[2], <<>>)]
          ELSE [NoCall EXCEPT !.op = "get_metadata_bytes", !.start = range[1], !.end = range[2],
                              !.at = "lock"],
          prefetch.tile_info_cache, fetch_log)

\* let lock = self.tile_info_cache.lock().await; the first critical section
CacheLookup(t) ==
    /\ request[t].at = "lock"
    /\ \E c \in {prefetch.tile_info_cache}, r \in {request[t]} :
          ConcurrentStep(t,
              IF r.start >= c.start /\ r.end <= c.end
              THEN [r EXCEPT !.at = "done",
                             !.result = Slice(c.bytes, r.start - c.start, r.end - c.start, <<>>)]
              ELSE [r EXCEPT !.at = "inner"],
              c, fetch_log)

\* self.reader.get_metadata_bytes(new_c_range.clone()).await?
InnerGetMetadataBytes(t) ==
    /\ request[t].at = "inner"
    /\ \E r \in {request[t]} :
       \E new_c_range \in {<<r.start, r.start + Estimate(r.start, r.end)>>} :
       \E got \in {InnerFetch(prefetch.inner, file, new_c_range[1], new_c_range[2])} :
          ConcurrentStep(t,
              IF got.ok THEN [r EXCEPT !.at = "write", !.res = got.bytes]
              ELSE [r EXCEPT !.at = "done", !.result = ErrR(EndOfFile, <<new_c_range>>)],
              prefetch.tile_info_cache,
              Append(fetch_log, Call("get_metadata_bytes", new_c_range)))

\* let mut lock = self.tile_info_cache.lock().await; *lock = (new_c_range, res.clone());
\* then Ok(res.slice(0..range_len))
CacheWrite(t) ==
    /\ request[t].at = "write"
    /\ \E r \in {request[t]} :
       \E new_c_range \in {<<r.start, r.start + Estimate(r.start, r.end)>>} :
          ConcurrentStep(t,
              [r EXCEPT !.at = "done",
                        !.result = Slice(r.res, 0, r.end - r.start, <<new_c_range>>)],
              [start |-> new_c_range[1], end |-> new_c_range[2], bytes |-> r.res],
              fetch_log)

\* get_image_bytes(range) / get_image_byte_ranges(vec![range]): the future of
\* the inner reader is handed back as it is
GetImageBytes(t, op, range) ==
    /\ request[t].at = "idle"
    /\ ConcurrentStep(t,
          [NoCall EXCEPT !.op = op, !.start = range[1], !.end = range[2], !.at = "image"],
          prefetch.tile_info_cache, fetch_log)

InnerGetImageBytes(t) ==
    /\ request[t].at = "image"
    /\ \E r \in {request[t]} :
       \E got \in {InnerFetch(prefetch.inner, file, r.start, r.end)} :
          ConcurrentStep(t,
              [r EXCEPT !.at = "done",
                        !.result = IF ~got.ok THEN ErrR(EndOfFile, <<<<r.start, r.end>>>>)
                                   ELSE IF r.op = "get_image_bytes"
                                        THEN OkR(got.bytes, <<<<r.start, r.end>>>>)
                                   ELSE OkR(<<got.bytes>>, <<<<r.start, r.end>>>>)],
              prefetch.tile_info_cache,
              Append(fetch_log, Call(r.op, <<r.start, r.end>>)))

NextConcurrent ==
    \/ \E t \in Tasks, range \in Ranges : GetMetadataBytes(t, range)
    \/ \E t \in Tasks : CacheLookup(t)
    \/ \E t \in Tasks : InnerGetMetadataBytes(t)
    \/ \E t \in Tasks : CacheWrite(t)
    \/ \E t \in Tasks, op \in {"get_image_bytes", "get_image_byte_ranges"} :
          GetImageBytes(t, op, <<0, 1>>)
    \/ \E t \in Tasks : InnerGetImageBytes(t)

SpecConcurrent == InitConcurrent /\ [][NextConcurrent]_vars

----------------------------------------------------------------------------
(* Claims about concurrent calls on a PrefetchReader (SpecConcurrent) *)

Returned(t) == request[t].op = "get_metadata_bytes" /\ request[t].at = "done"

\* the cache holds the inner source's response for exactly the cached range
CachePairConsistent ==
    \E got \in {InnerFetch(prefetch.inner, file, prefetch.tile_info_cache.start,
                           prefetch.tile_info_cache.end)} :
        got.ok /\ got.bytes = prefetch.tile_info_cache.bytes

\* C29: under every interleaving of concurrent get_metadata_bytes calls the
\* cache holds the inner source's response for exactly the cached range, every
\* call on a range of the file returns the file's bytes at its own range
\* whichever call wrote the cache last, and an image call answers from the
\* inner source alone.
C29_ConcurrentPrefetch ==
    /\ CachePairConsistent
    /\ \A t \in Tasks :
          (Returned(t) /\ request[t].end <= Len(file)) =>
              /\ request[t].result.kind = "Ok"
              /\ request[t].result.value = SubSeq(file, request[t].start + 1, request[t].end)
    /\ \A t \in Tasks :
          (request[t].at = "done" /\ request[t].op = "get_image_bytes"
             /\ request[t].end <= Len(file)) =>
              request[t].result = OkR(SubSeq(file, request[t].start + 1, request[t].end),
                                      <<<<request[t].start, request[t].end>>>>)

\* interference between calls: a call that returns bytes returns those of its
\* own range (as far as the file has them), and the cache stays consistent
NoInterference ==
    /\ CachePairConsistent
    /\ \A t \in Tasks :
          (Returned(t) /\ request[t].result.kind = "Ok") =>
              request[t].result.value =
                  SubSeq(file, request[t].start + 1,
                         IF request[t].end < Len(file) THEN request[t].end ELSE Len(file))

\* a step of an image call leaves the buffer and the cache as they are
ImageBypass ==
    [][\A t \in Tasks :
          (request'[t] # request[t]
             /\ request'[t].op \in {"get_image_bytes", "get_image_byte_ranges"}) =>
                prefetch' = prefetch]_vars

----------------------------------------------------------------------------
(* The registry of extra-tag handlers: metadata/extra_tags.rs 44-89         *)

\* the most handlers (Arc<dyn ExtraTags>) allocated before a deep_clone
MaxHandlers == 3

\* what tags() of a handler type returns
HandlerTags == {<<"A", "B">>, <<"B", "C">>, <<"C">>, <<"A", "A">>, <<>>}
TagsOf(list) == {list[i] : i \in 1..Len(list)}
\* HashMap::insert
Insert(map, key, value) ==
    [k \in DOMAIN map \cup {key} |-> IF k = key THEN value ELSE map[k]]
\* ExtraTagsRegistry::new()
EmptyRegistry == [k \in {} |-> 0]

\* the second loop of register: the tags of the list inserted one by one
RECURSIVE InsertAll(_, _, _)
InsertAll(map, list, h) ==
    IF list = <<>> THEN map ELSE InsertAll(Insert(map, Head(list), h), Tail(list), h)

\* as register, but each tag is inserted as soon as it was found free
RECURSIVE MutRegister(_, _, _)
MutRegister(registry, list, h) ==
    IF list = <<>> THEN [ok |-> TRUE, registry |-> registry]
    ELSE IF Head(list) \in DOMAIN registry /\ registry[Head(list)] # h
         THEN [ok |-> FALSE, registry |-> registry]
         ELSE MutRegister(Insert(registry, Head(list), h), Tail(list), h)

\* ExtraTagsRegistry::register(tags) for the handler h whose tags() is list:
\* [ok, registry]
register(registry, list, h) ==
    IF \E i \in 1..Len(list) : list[i] \in DOMAIN registry
    THEN [ok |-> FALSE, registry |-> registry]
    ELSE [ok |-> TRUE, registry |-> InsertAll(registry, list, h)]

\* ExtraTagsRegistry::deep_clone: the outcomes [ok, registry, heap] of walking
\* the handlers not yet in `seen` in any order (HashMap::values), each cloned
\* into a new allocation (clone_arc) and registered in new_registry
RECURSIVE deep_clone(_, _, _)
deep_clone(todo, new_registry, heap) ==
    IF todo = {} THEN {[ok |-> TRUE, registry |-> new_registry, heap |-> heap]}
    ELSE UNION {
           LET cloned == register(new_registry, heap[h], Len(heap) + 1)
           IN  IF cloned.ok
               THEN deep_clone(todo \ {h}, cloned.registry, Append(heap, heap[h]))
               ELSE {[ok |-> FALSE, registry |-> new_registry, heap |-> heap]}
           : h \in todo }

InitRegistry ==
    /\ entry = [registry |-> EmptyRegistry, heap |-> <<>>, clone |-> Idle]
    /\ pc = "registry" /\ request = Idle /\ outcome = NotRun
    /\ file = <<>> /\ layout = Idle /\ fetch_log = <<>>
    /\ tags = <<>> /\ ifd = Idle /\ predictor_info = Idle /\ prefetch = Idle
    /\ endianness = LittleEndian /\ bigtiff = FALSE /\ next_ifd_offset = None
    /\ ifd_reader = Idle /\ tag_idx = 0 /\ ifds = <<>> /\ visited = <<>> /\ cursor = Idle
    /\ parsed = Idle

RegistryStep(e, req, result) ==
    /\ entry' = e /\ request' = req /\ outcome' = result
    /\ UNCHANGED <<file, layout, pc, fetch_log, tags, ifd, predictor_info, prefetch, endianness,
                   bigtiff, next_ifd_offset, ifd_reader, tag_idx, ifds, visited, cursor, parsed>>

\* Arc::new(handler): a new handler object whose tags() is list
ArcNew(list) ==
    /\ Len(entry.heap) < MaxHandlers
    /\ RegistryStep([entry EXCEPT !.heap = Append(entry.heap, list), !.clone = Idle],
                    request, outcome)

\* registry.register(h.clone())
Register(h) ==
    \E r \in {register(entry.registry, entry.heap[h], h)} :
        RegistryStep([entry EXCEPT !.registry = r.registry, !.clone = Idle],
                     [op |-> "register", h |-> h, before |-> entry.registry],
                     IF r.ok THEN OkR(NoValue, <<>>) ELSE ErrR(General, <<>>))

\* let r2 = registry.deep_clone(); r2 is dropped before the registry or the
\* heap changes again
DeepClone ==
    \E r \in deep_clone({entry.registry[k] : k \in DOMAIN entry.registry}, EmptyRegistry,
                        entry.heap) :
        RegistryStep([entry EXCEPT !.clone = r], request, outcome)

NextRegistry ==
    \/ \E list \in HandlerTags : ArcNew(list)
    \/ \E h \in 1..Len(entry.heap) : Register(h)
    \/ DeepClone

SpecRegistry == InitRegistry /\ [][NextRegistry]_vars

----------------------------------------------------------------------------
(* Claims about the registry of extra-tag handlers (SpecRegistry) *)

Registry == entry.registry
OwnTags(h) == TagsOf(entry.heap[h])

\* C30: register(h) either inserts h under every tag of h.tags() and nothing
\* else, or, when one of those tags is already registered, returns a General
\* error and leaves the registry as it was; every handler of the registry is
\* registered under all of its own tags and under no other; deep_clone gives a
\* registry with the same tags in which tags share a handler exactly when they
\* did, and every handler is a new object of the same type.
C30_RegistryInvariant ==
    /\ request # Idle =>
          IF OwnTags(request.h) \cap DOMAIN request.before # {}
          THEN outcome = ErrR(General, <<>>) /\ Registry = request.before
          ELSE /\ outcome = OkR(NoValue, <<>>)
               /\ DOMAIN Registry = DOMAIN request.before \cup OwnTags(request.h)
               /\ \A k \in OwnTags(request.h) : Registry[k] = request.h
               /\ \A k \in DOMAIN request.before : Registry[k] = request.before[k]
    /\ \A k \in DOMAIN Registry :
          /\ k \in OwnTags(Registry[k])
          /\ \A own \in OwnTags(Registry[k]) : own \in DOMAIN Registry /\ Registry[own] = Registry[k]
    /\ entry.clone # Idle =>
          /\ entry.clone.ok
          /\ DOMAIN entry.clone.registry = DOMAIN Registry
          /\ \A k \in DOMAIN Registry :
                /\ entry.clone.registry[k] \notin 1..Len(entry.heap)
                /\ entry.clone.heap[entry.clone.registry[k]] = entry.heap[Registry[k]]
                /\ \A j \in DOMAIN Registry :
                      (entry.clone.registry[k] = entry.clone.registry[j]) <=> (Registry[k] = Registry[j])

\* a handler with two tags next to a second handler, the last register call
\* refused for an overlap that is not with its first tag, and a deep clone
C30_Witness ==
    /\ request # Idle /\ outcome.kind = "Err"
    /\ entry.heap[request.h][1] \notin DOMAIN Registry
    /\ entry.clone # Idle
    /\ \E k, j \in DOMAIN Registry : k # j /\ Registry[k] = Registry[j]

====
